---- MODULE Spec2Model ----
(***************************************************************************)
(* Task update, comment and notification fan-out of the project-management *)
(* backend (src/src/services/taskService.js and its collaborators),        *)
(* modelled as a state machine over the rows of the data store.  Every     *)
(* await of a handler is one step; the synchronous code that follows an    *)
(* await belongs to the same step.                                         *)
(***************************************************************************)
EXTENDS Integers, Sequences, FiniteSets, Bags, TLC

\* ------------------------------------------------------------------ bounds

\* Requests (updateTask, addCommentToTask) started in one behaviour.
MaxRequests == 1
\* Administrative changes (role updates, lead replacements); they are
\* explored while a request can still follow them.
MaxChanges == 1
\* Store or channel failures injected in one behaviour.
MaxFaults == 1
\* reorderTasks requests started in one behaviour.
MaxReorders == 2
\* deleteTask requests served in one behaviour.
MaxDeletes == 1
\* Tasks of a project whose statuses are enumerated freely.
MaxTasks == 4
\* Tasks of a large project.
LongLength == 200
\* Tasks of a medium-sized project.
MediumLength == 40
\* Requests served in one behaviour of the task life cycle.
MaxOperations == 2

\* ------------------------------------------------------------ identities

\* Users holding an account; each may hold a membership of the organization.
Users == {"A", "B", "C"}
\* An id that resolves to no member of the organization.
Stranger == "X"

NoRole == "NONE"
Roles == {"EMPLOYEE", "TEAM_LEADER", "ADMIN", "SUPER_ADMIN"}

ROLE_HIERARCHY ==
  [ro \in Roles |->
     CASE ro = "EMPLOYEE" -> 0
       [] ro = "TEAM_LEADER" -> 1
       [] ro = "ADMIN" -> 2
       [] ro = "SUPER_ADMIN" -> 3]

\* The project that owns the task; the organization's other project is "P2".
TaskProject == "P1"

\* The task the update and comment requests are about.
TaskId == "T1"

\* The organization of the members.
Organization == "O1"

\* prisma.project: the organization each project belongs to.
ProjectOrganization == [P1 |-> "O1", P2 |-> "O1", P3 |-> "O2"]

\* Task.status values ('מתוכנן', 'בתהליך', 'תקוע', 'הושלם').
Statuses == {"Planned", "InProgress", "Stuck", "Completed"}

\* Columns of a task row that task.update may set.
ScalarFields ==
  {"title", "description", "status", "startDate", "endDate", "expense",
   "color", "displayOrder"}

allowedUpdatesForAssignee == {"status"}

allowedUpdatesForManager == ScalarFields \cup {"assigneesIds"}

\* allowedFields of the controller.
allowedFields == ScalarFields \cup {"assigneesIds"}

\* ---------------------------------------------------------------- helpers

SeqToSet(s) == {s[i] : i \in DOMAIN s}

\* array.filter(id => !excluded.includes(id))
Without(s, excluded) == SelectSeq(s, LAMBDA x : x \notin excluded)

\* [...new Set(array)]: first occurrences, in order.
Dedupe(s) ==
  LET F[i \in 0..Len(s)] ==
        IF i = 0 THEN << >>
        ELSE IF s[i] \in SeqToSet(F[i - 1]) THEN F[i - 1]
             ELSE Append(F[i - 1], s[i])
  IN F[Len(s)]

\* The object with the keys of d that are in keys.
Restrict(d, keys) == [k \in (DOMAIN d) \cap keys |-> d[k]]

\* new Date(string): the calendar day as yyyymmdd, or Invalid Date (whose time
\* value is NaN).
InvalidDate == -1
ParseDate(s) ==
  CASE s = "2025-01-01" -> 20250101
    [] s = "2025-02-01" -> 20250201
    [] OTHER -> InvalidDate


\* ------------------------------------------------------------------ state

VARIABLES
  membership,        \* prisma.membership: each user's role in the organization, or NoRole
  tokenRole,         \* the role inside the JWT each user presents, or NoRole (no token)
  projectTeamLeads,  \* prisma.projectTeamLead rows of each project, in row order
  tasks,             \* prisma.task: the row (project and scalar columns) of each task
  taskAssignees,     \* prisma.taskAssignee rows of the task (user ids), in row order
  comments,          \* prisma.comment rows of the task (author ids), in creation order
  notifications,     \* prisma.notification rows, a bag
  emitted,           \* 'new_notification' events pushed through Socket.IO, a bag
  io,                \* whether initNotifications attached a Socket.IO server
  reqs,              \* the requests in flight: position and locals of each handler
  started,           \* requests started so far
  changes,           \* administrative changes so far
  faults,            \* failures injected so far
  calc,              \* a call of calculateProjectStatus: its argument and result
  projects,          \* prisma.project: the stored columns of each project
  otherAssignees     \* prisma.taskAssignee rows of every other task, in row order

vars ==
  << membership, tokenRole, projectTeamLeads, tasks, taskAssignees, comments,
     notifications, emitted, io, reqs, started, changes, faults, calc,
     projects, otherAssignees >>

\* Request slots: handlers that may be in flight at once.
Slots == {1, 2}

\* The row of the task the update and comment requests are about.
task == tasks[TaskId]

\* ----------------------------------------------------------------- inputs

\* Request bodies of PUT /projects/:projectId/tasks/:taskId.
UpdatePayloads ==
  { [status |-> "Completed"],
    [status |-> "Planned"],
    [title |-> "t1"],
    [status |-> "Completed", title |-> "t1"],
    [status |-> "Completed", color |-> "c1", expense |-> 5],
    [assigneesIds |-> <<"B", "C">>],
    [assigneesIds |-> <<"C", "X">>],
    [assigneesIds |-> <<"A", "A">>],
    [status |-> "Completed", assigneesIds |-> <<"B", "C">>],
    [startDate |-> "garbage"],
    [assigneesIds |-> <<"B", "C">>, endDate |-> "garbage"],
    [title |-> "t1", description |-> "d1", assigneesIds |-> <<"C">>,
     status |-> "Stuck", startDate |-> "2025-02-01", endDate |-> "2025-02-01",
     expense |-> 5, color |-> "c1", displayOrder |-> 3],
    [id |-> "T9"] }

InitialTask ==
  [projectId |-> TaskProject, title |-> "t0", description |-> "d0",
   status |-> "Planned", startDate |-> 20250101, endDate |-> 20250101,
   expense |-> 0, color |-> "c0", displayOrder |-> 0]

\* The task rows the server starts on: three tasks of the project, in
\* createTask's order, and one task of the other project.
InitialTasks ==
  [T1 |-> InitialTask,
   T2 |-> [InitialTask EXCEPT !.title = "t2", !.displayOrder = 1],
   T3 |-> [InitialTask EXCEPT !.title = "t3", !.status = "InProgress",
                              !.displayOrder = 2],
   T4 |-> [InitialTask EXCEPT !.projectId = "P2", !.title = "t4"]]

\* The project rows the server starts on: no status column has been written.
InitialProjects ==
  [p \in DOMAIN ProjectOrganization |-> [title |-> "p0", status |-> "-"]]

\* The tasks other than the task start without assignees.
NoAssignees == [t \in (DOMAIN InitialTasks) \ {TaskId} |-> << >>]

\* No call of calculateProjectStatus has been made.
NoCall == [tasks |-> << >>, called |-> FALSE, status |-> "-",
           completionPercentage |-> 0]

\* Stores the server may start on: the roles of the three members, the lead
\* rows of the two projects and the assignee rows of the task.
InitialStores ==
  { [roles |-> [A |-> "ADMIN", B |-> "TEAM_LEADER", C |-> "EMPLOYEE"],
     leads |-> [P1 |-> <<"B">>, P2 |-> << >>],
     assignees |-> <<"A", "B">>],
    [roles |-> [A |-> "SUPER_ADMIN", B |-> "ADMIN", C |-> "EMPLOYEE"],
     leads |-> [P1 |-> <<"A", "C">>, P2 |-> <<"B">>],
     assignees |-> <<"C">>],
    [roles |-> [A |-> "EMPLOYEE", B |-> "TEAM_LEADER", C |-> "TEAM_LEADER"],
     leads |-> [P1 |-> <<"C">>, P2 |-> <<"B">>],
     assignees |-> <<"A", "B">>],
    [roles |-> [A |-> "ADMIN", B |-> "TEAM_LEADER", C |-> "EMPLOYEE"],
     leads |-> [P1 |-> << >>, P2 |-> <<"B">>],
     assignees |-> << >>] }

\* What a handler remembers of the store as it was when the request entered.
Snapshot ==
  [task |-> task, assignees |-> taskAssignees, notifications |-> notifications,
   leads |-> projectTeamLeads[TaskProject], comments |-> comments,
   members |-> {u \in Users : membership[u] # NoRole}, rows |-> tasks]

NoData == [k \in {} |-> 0]

\* A slot no handler occupies.  pre, roleAtEntry, did, replaced, failedFor
\* and failure record the run for the properties; no handler reads them.
IdleReq ==
  [kind |-> "none", pc |-> "idle", actor |-> "A", role |-> NoRole,
   organizationId |-> Organization, projectId |-> TaskProject,
   taskId |-> TaskId, data |-> NoData, leads |-> << >>, oldStatus |-> "Planned",
   oldAssignees |-> << >>, oldTitle |-> "t0", final |-> NoData,
   newDisplayOrder |-> 0, queue |-> << >>,
   result |-> "none", named |-> {},
   pre |-> [task |-> InitialTask, assignees |-> << >>,
            notifications |-> EmptyBag, leads |-> << >>, comments |-> << >>,
            members |-> {}, rows |-> InitialTasks],
   roleAtEntry |-> NoRole, did |-> {}, replaced |-> << >>,
   failedFor |-> {},
   failure |-> "none"]

Init ==
  /\ \E s \in InitialStores :
       /\ membership = s.roles
       /\ projectTeamLeads = s.leads
       /\ taskAssignees = s.assignees
  /\ tokenRole = membership
  /\ tasks = InitialTasks
  /\ comments = << >>
  /\ notifications = EmptyBag
  /\ emitted = EmptyBag
  /\ io = TRUE
  /\ reqs = [r \in Slots |-> IdleReq]
  /\ started = 0
  /\ changes = 0
  /\ faults = 0
  /\ calc = NoCall
  /\ projects = InitialProjects
  /\ otherAssignees = NoAssignees

\* The service loaded by a process that never calls initNotifications: io is
\* undefined.
InitDetached ==
  /\ \E s \in InitialStores :
       /\ membership = s.roles
       /\ projectTeamLeads = s.leads
       /\ taskAssignees = s.assignees
  /\ tokenRole = membership
  /\ tasks = InitialTasks
  /\ comments = << >>
  /\ notifications = EmptyBag
  /\ emitted = EmptyBag
  /\ io = FALSE
  /\ reqs = [r \in Slots |-> IdleReq]
  /\ started = 0
  /\ changes = 0
  /\ faults = 0
  /\ calc = NoCall
  /\ projects = InitialProjects
  /\ otherAssignees = NoAssignees


\* No handler is in flight.
Quiet == \A r \in Slots : reqs[r].pc \in {"idle", "done"}

\* ------------------------------------------------- notificationService.js

\* The notification row createAndSendNotification writes.
Notification(userId, type, what, title, old, new) ==
  [userId |-> userId, type |-> type, read |-> FALSE,
   text |-> [what |-> what, title |-> title, old |-> old, new |-> new]]

\* The handler throws: nothing after the throw runs.
Throw(q, result, named) ==
  [q EXCEPT !.pc = "done", !.result = result, !.named = named, !.queue = << >>]

\* The handler returns.
Return(q) == [q EXCEPT !.pc = "done", !.result = "ok", !.queue = << >>]

\* Where a handler goes when a fan-out loop has no recipient left.
AfterLoop(q) ==
  IF q.pc = "notifyAssign" THEN [q EXCEPT !.pc = "update", !.queue = << >>]
  ELSE Return(q)

\* Enter a fan-out loop over the notifications ns, or pass it when ns is empty.
Loop(q, pc, ns) ==
  IF ns = << >> THEN AfterLoop([q EXCEPT !.pc = pc])
  ELSE [q EXCEPT !.pc = pc, !.queue = ns]

\* The push attempted without looking at io.
EmitsUnattached(attached, outcome) == outcome = "sent"

\* if (io) { io.to(userId).emit('new_notification', ...) }: whether the event
\* goes out.
Emits(attached, outcome) == attached /\ outcome = "sent"

\* One iteration of a fan-out loop: await createAndSendNotification(...).
\* outcome: "sent" | "createFails" (prisma.notification.create rejects)
\*        | "emitFails" (io.to(userId).emit throws).
CreateAndSendNotification(r, outcome) ==
  LET q == reqs[r]
      n == Head(q.queue)
  IN /\ q.pc \in {"notifyAssign", "notifyStatus", "notifyComment"}
     /\ q.queue # << >>
     /\ outcome = "emitFails" => io
     /\ outcome # "sent" => faults < MaxFaults
     /\ faults' = IF outcome = "sent" THEN faults ELSE faults + 1
     /\ notifications' =
          IF outcome = "createFails" THEN notifications
          ELSE notifications (+) SetToBag({n})
     /\ emitted' =
          IF Emits(io, outcome) THEN emitted (+) SetToBag({n}) ELSE emitted
     /\ reqs' =
          [reqs EXCEPT ![r] =
             IF outcome = "sent"
             THEN IF Tail(q.queue) = << >> THEN AfterLoop(q)
                  ELSE [q EXCEPT !.queue = Tail(q.queue)]
             ELSE [Throw(q, IF outcome = "createFails" THEN "StoreError"
                            ELSE "EmitError", {})
                     EXCEPT !.failedFor = {n},
                            !.failure = IF outcome = "createFails"
                                        THEN "persistence" ELSE "push"]]
     /\ UNCHANGED << membership, tokenRole, projectTeamLeads, tasks,
                     taskAssignees, comments, io, started, changes, calc,
                     projects, otherAssignees >>


\* -------------------------------------------------- updateTask (handler)

\* The lead test without the role test: any listed lead counts as manager.
PermissionBranchAnyLead(currentUserRole, isLeadOfProject, isAssignee) ==
  LET isAdmin == currentUserRole \in {"ADMIN", "SUPER_ADMIN"}
  IN IF isAdmin \/ isLeadOfProject THEN "manager"
     ELSE IF isAssignee THEN "assignee"
     ELSE "none"

\* The assignee branch taken without the assignee test.
PermissionBranchNoElse(currentUserRole, isLeadOfProject, isAssignee) ==
  LET isProjectTeamLeader == isLeadOfProject /\ currentUserRole = "TEAM_LEADER"
      isAdmin == currentUserRole \in {"ADMIN", "SUPER_ADMIN"}
  IN IF isAdmin \/ isProjectTeamLeader THEN "manager" ELSE "assignee"

\* Which branch of the permission logic a request takes:
\* "manager" (all fields), "assignee" (status only) or "none".
PermissionBranch(currentUserRole, isLeadOfProject, isAssignee) ==
  LET isProjectTeamLeader == isLeadOfProject /\ currentUserRole = "TEAM_LEADER"
      isAdmin == currentUserRole \in {"ADMIN", "SUPER_ADMIN"}
  IN IF isAdmin \/ isProjectTeamLeader THEN "manager"
     ELSE IF isAssignee THEN "assignee"
     ELSE "none"

\* The filter run against the managers' list instead of the assignees'.
RestrictedUpdatesManagerList(updateData) ==
  (DOMAIN updateData) \ allowedUpdatesForManager

\* Object.keys(updateData).filter(key => !allowedUpdatesForAssignee.includes(key))
RestrictedUpdates(updateData) == (DOMAIN updateData) \ allowedUpdatesForAssignee

\* The project row found whatever organization the request names.
ProjectFoundAnyOrganization(projectId, organizationId) ==
  projectId \in DOMAIN ProjectOrganization

\* prisma.project.findUnique({ where: { id: projectId, organizationId } })
\* finds a row.
ProjectFound(projectId, organizationId) ==
  /\ projectId \in DOMAIN ProjectOrganization
  /\ ProjectOrganization[projectId] = organizationId

\* The projectTeamLeads rows included with the project (user ids).
LeadsOf(projectId) ==
  IF projectId \in DOMAIN projectTeamLeads THEN projectTeamLeads[projectId]
  ELSE << >>

\* prisma.task.findUnique({ where: { id: taskId, projectId } }) finds a row.
TaskFound(taskId, projectId) ==
  taskId \in DOMAIN tasks /\ tasks[taskId].projectId = projectId

\* The assignee rows included with the task (user ids).
AssigneesOf(taskId) ==
  IF taskId = TaskId THEN taskAssignees
  ELSE IF taskId \in DOMAIN otherAssignees THEN otherAssignees[taskId]
  ELSE << >>

\* The controller (authorizeRoles has passed: the token carries a role), then
\* the service up to its first read: prisma.project.findUnique with the leads.
\* limit bounds the requests of one behaviour.
ServeUpdateTask(r, u, organizationId, projectId, taskId, body, limit) ==
  LET filteredUpdateData == Restrict(body, allowedFields)
      q == [IdleReq EXCEPT !.kind = "update", !.actor = u,
                           !.role = tokenRole[u], !.data = filteredUpdateData,
                           !.organizationId = organizationId,
                           !.projectId = projectId, !.taskId = taskId,
                           !.pre = Snapshot, !.roleAtEntry = membership[u]]
  IN /\ reqs[r].pc \in {"idle", "done"}
     /\ started < limit
     /\ tokenRole[u] \in Roles
     /\ started' = started + 1
     /\ reqs' =
          [reqs EXCEPT ![r] =
             IF DOMAIN filteredUpdateData = {}
             THEN Throw(q, "BadRequest", {})
             ELSE IF ~ ProjectFound(projectId, organizationId)
             THEN Throw(q, "NotFound", {})
             ELSE [q EXCEPT !.leads = LeadsOf(projectId), !.pc = "findTask"]]
     /\ UNCHANGED << membership, tokenRole, projectTeamLeads, tasks,
                     taskAssignees, comments, notifications, emitted, io,
                     changes, faults, calc,
                     projects, otherAssignees >>

\* PUT /projects/:projectId/tasks/:taskId with any organization header,
\* project and task.
BeginUpdateTaskAt(r, u, organizationId, projectId, taskId, body) ==
  ServeUpdateTask(r, u, organizationId, projectId, taskId, body, MaxRequests)

\* PUT /projects/:projectId/tasks/:taskId for the task of the project, in the
\* members' organization.
BeginUpdateTask(r, u, body) ==
  BeginUpdateTaskAt(r, u, Organization, TaskProject, TaskId, body)

\* prisma.task.findUnique with the assignees, then the permission logic.
FindTask(r) ==
  LET q == reqs[r]
      found == TaskFound(q.taskId, q.projectId)
      isAssignee == q.actor \in SeqToSet(AssigneesOf(q.taskId))
      isLead == q.actor \in SeqToSet(q.leads)
      branch == PermissionBranch(q.role, isLead, isAssignee)
      seen == [q EXCEPT !.oldStatus = tasks[q.taskId].status,
                        !.oldTitle = tasks[q.taskId].title,
                        !.oldAssignees = AssigneesOf(q.taskId)]
  IN /\ q.kind = "update"
     /\ q.pc = "findTask"
     /\ reqs' =
          [reqs EXCEPT ![r] =
             CASE ~ found -> Throw(q, "NotFound", {})
               [] found /\ branch = "manager" ->
                    [seen EXCEPT
                       !.final = Restrict(q.data, (DOMAIN q.data)
                                                    \ {"assigneesIds"}),
                       !.pc = IF "assigneesIds" \in DOMAIN q.data
                              THEN "validate" ELSE "update"]
               [] found /\ branch = "assignee" ->
                    IF RestrictedUpdates(q.data) # {}
                    THEN Throw(seen, "PermissionDenied",
                               RestrictedUpdates(q.data))
                    ELSE [seen EXCEPT !.final = Restrict(q.data, {"status"}),
                                      !.pc = "update"]
               [] OTHER -> Throw(seen, "PermissionDenied", {})]
     /\ UNCHANGED << membership, tokenRole, projectTeamLeads, tasks,
                     taskAssignees, comments, notifications, emitted, io,
                     started, changes, faults, calc,
                     projects, otherAssignees >>

\* prisma.user.findMany: the users among assigneesIds that hold a membership
\* of the organization.
ExistingUsers(assigneesIds) ==
  {id \in SeqToSet(assigneesIds) : id \in Users /\ membership[id] # NoRole}

\* The check failing only when no id at all resolves.
AssigneesInvalidNoneFound(assigneesIds) ==
  assigneesIds # << >> /\ ExistingUsers(assigneesIds) = {}

\* existingUsers.length !== assigneesIds.length
AssigneesInvalid(assigneesIds) ==
  Cardinality(ExistingUsers(assigneesIds)) # Len(assigneesIds)

ValidateAssignees(r) ==
  LET q == reqs[r]
  IN /\ q.kind = "update"
     /\ q.pc = "validate"
     /\ reqs' =
          [reqs EXCEPT ![r] =
             IF AssigneesInvalid(q.data.assigneesIds)
             THEN Throw(q, "InvalidAssignees", {})
             ELSE [q EXCEPT !.pc = "replace"]]
     /\ UNCHANGED << membership, tokenRole, projectTeamLeads, tasks,
                     taskAssignees, comments, notifications, emitted, io,
                     started, changes, faults, calc,
                     projects, otherAssignees >>

\* The two statements run outside a transaction: a rejected createMany
\* leaves the rows deleted.
ReplaceNotAtomic(rows, assigneesIds, createFails) ==
  IF createFails THEN << >> ELSE assigneesIds

\* prisma.$transaction([deleteMany, createMany]): the rows after it.  A
\* rejected createMany rolls the deleteMany back.
ReplaceTransaction(rows, assigneesIds, createFails) ==
  IF createFails THEN rows ELSE assigneesIds

\* The first loop run over the whole new set instead of the added users.
AssignmentNotificationsWholeTeam(oldAssignees, assigneesIds, title) ==
  LET removedAssignees == Without(oldAssignees, SeqToSet(assigneesIds))
  IN [i \in 1..Len(assigneesIds) |->
        Notification(assigneesIds[i], "assignment", "assigned", title,
                     "-", "-")]
     \o [i \in 1..Len(removedAssignees) |->
           Notification(removedAssignees[i], "assignment", "unassigned",
                        title, "-", "-")]

\* The notifications of the two assignment loops, in loop order.
AssignmentNotifications(oldAssignees, assigneesIds, title) ==
  LET newAssignees == Without(assigneesIds, SeqToSet(oldAssignees))
      removedAssignees == Without(oldAssignees, SeqToSet(assigneesIds))
  IN [i \in 1..Len(newAssignees) |->
        Notification(newAssignees[i], "assignment", "assigned", title,
                     "-", "-")]
     \o [i \in 1..Len(removedAssignees) |->
           Notification(removedAssignees[i], "assignment", "unassigned",
                        title, "-", "-")]

ReplaceAssignees(r, createFails) ==
  LET q == reqs[r]
  IN /\ q.kind = "update"
     /\ q.pc = "replace"
     /\ createFails => faults < MaxFaults
     /\ faults' = IF createFails THEN faults + 1 ELSE faults
     /\ taskAssignees' =
          ReplaceTransaction(taskAssignees, q.data.assigneesIds, createFails)
     /\ reqs' =
          [reqs EXCEPT ![r] =
             IF createFails THEN Throw(q, "StoreError", {})
             ELSE Loop([q EXCEPT !.did = @ \cup {"replace"},
                                 !.replaced = taskAssignees], "notifyAssign",
                       AssignmentNotifications(q.oldAssignees,
                                               q.data.assigneesIds,
                                               q.oldTitle))]
     /\ UNCHANGED << membership, tokenRole, projectTeamLeads, tasks, comments,
                     notifications, emitted, io, started, changes, calc,
                     projects, otherAssignees >>


\* The data object handed to prisma.task.update: finalUpdateData with the two
\* dates replaced by new Date(...) when truthy and left out (undefined)
\* when not.
UpdateColumns(finalUpdateData) ==
  [k \in {f \in DOMAIN finalUpdateData :
            f \in {"startDate", "endDate"} => finalUpdateData[f] # ""} |->
     IF k \in {"startDate", "endDate"} THEN ParseDate(finalUpdateData[k])
     ELSE finalUpdateData[k]]

\* Prisma rejects a Date that is Invalid Date before it writes anything.
UpdateRejected(columns) ==
  \E k \in DOMAIN columns : k \in {"startDate", "endDate"}
                            /\ columns[k] = InvalidDate

\* The row after prisma.task.update.
UpdatedRow(row, columns) ==
  [f \in DOMAIN row |-> IF f \in DOMAIN columns THEN columns[f] ELSE row[f]]

\* The recipients without the Set: a user who is assignee and lead is twice
\* in the list.
UsersToNotifyWithDuplicates(assignees, leads, currentUserId) ==
  Without(assignees \o leads, {currentUserId})

\* uniqueUsersToNotify of a fan-out over assignees and project leads.
UniqueUsersToNotify(assignees, leads, currentUserId) ==
  Dedupe(Without(assignees \o leads, {currentUserId}))

\* The notifications of the status-change loop, in loop order.
StatusNotifications(updatedTask, assignees, q) ==
  IF updatedTask.status # q.oldStatus
  THEN LET us == UniqueUsersToNotify(assignees, q.leads, q.actor)
       IN [i \in 1..Len(us) |->
             Notification(us[i], "status_change", "status changed",
                          updatedTask.title, q.oldStatus, updatedTask.status)]
  ELSE << >>

\* What the update step of q did, for the properties: it wrote the row, it
\* changed the stored status, it started a status_change fan-out.
Done(q, updatedTask) ==
  {"update"}
    \cup (IF updatedTask.status # tasks[q.taskId].status
          THEN {"statusChanged"} ELSE {})
    \cup (IF StatusNotifications(updatedTask, AssigneesOf(q.taskId), q) # << >>
          THEN {"statusNotified"} ELSE {})

\* prisma.task.update with the assignees included, then the status diff.
UpdateTaskRow(r) ==
  LET q == reqs[r]
      columns == UpdateColumns(q.final)
      updatedTask == UpdatedRow(tasks[q.taskId], columns)
  IN /\ q.kind = "update"
     /\ q.pc = "update"
     /\ IF UpdateRejected(columns)
        THEN /\ tasks' = tasks
             /\ reqs' = [reqs EXCEPT ![r] = Throw(q, "StoreError", {})]
        ELSE /\ tasks' = [tasks EXCEPT ![q.taskId] = updatedTask]
             /\ reqs' =
                  [reqs EXCEPT ![r] =
                     Loop([q EXCEPT !.did = @ \cup Done(q, updatedTask)],
                          "notifyStatus",
                          StatusNotifications(updatedTask,
                                              AssigneesOf(q.taskId), q))]
     /\ UNCHANGED << membership, tokenRole, projectTeamLeads, taskAssignees,
                     comments, notifications, emitted, io, started, changes,
                     faults, calc,
                     projects, otherAssignees >>

\* ------------------------------------------- addCommentToTask (handler)

\* The controller, then prisma.project.findUnique with the leads.
BeginAddComment(r, authorId) ==
  /\ reqs[r].pc \in {"idle", "done"}
  /\ started < MaxRequests
  /\ tokenRole[authorId] \in Roles
  /\ started' = started + 1
  /\ reqs' =
       [reqs EXCEPT ![r] =
          [IdleReq EXCEPT !.kind = "comment", !.pc = "findTask",
                          !.actor = authorId, !.role = tokenRole[authorId],
                          !.leads = projectTeamLeads[TaskProject],
                          !.pre = Snapshot,
                          !.roleAtEntry = membership[authorId]]]
  /\ UNCHANGED << membership, tokenRole, projectTeamLeads, tasks, taskAssignees,
                  comments, notifications, emitted, io, changes, faults, calc,
                  projects, otherAssignees >>

\* prisma.task.findUnique with the assignees.
FindTaskForComment(r) ==
  LET q == reqs[r]
  IN /\ q.kind = "comment"
     /\ q.pc = "findTask"
     /\ reqs' =
          [reqs EXCEPT ![r] =
             [q EXCEPT !.oldStatus = task.status, !.oldTitle = task.title,
                       !.oldAssignees = taskAssignees, !.pc = "createComment"]]
     /\ UNCHANGED << membership, tokenRole, projectTeamLeads, tasks,
                     taskAssignees, comments, notifications, emitted, io,
                     started, changes, faults, calc,
                     projects, otherAssignees >>

\* The comment loop without the filter that drops the author.
CommentNotificationsWithAuthor(q) ==
  LET us == Dedupe(q.oldAssignees \o q.leads)
  IN [i \in 1..Len(us) |->
        Notification(us[i], "comment", "new comment", q.oldTitle, "-",
                     q.actor)]

\* The notifications of the comment loop, in loop order.
CommentNotifications(q) ==
  LET us == UniqueUsersToNotify(q.oldAssignees, q.leads, q.actor)
  IN [i \in 1..Len(us) |->
        Notification(us[i], "comment", "new comment", q.oldTitle, "-",
                     q.actor)]

\* prisma.comment.create, then the recipients of the fan-out.
CreateComment(r) ==
  LET q == reqs[r]
  IN /\ q.kind = "comment"
     /\ q.pc = "createComment"
     /\ comments' = Append(comments, q.actor)
     /\ reqs' =
          [reqs EXCEPT ![r] =
             Loop([q EXCEPT !.did = @ \cup {"comment"}], "notifyComment",
                  CommentNotifications(q))]
     /\ UNCHANGED << membership, tokenRole, projectTeamLeads, tasks,
                     taskAssignees, notifications, emitted, io, started,
                     changes, faults, calc,
                     projects, otherAssignees >>

\* ---------------------------------------------- reorderTasks (handler)

\* The controller (authorizeRoles(['ADMIN', 'SUPER_ADMIN', 'TEAM_LEADER']) has
\* passed), then the service up to prisma.project.findUnique.
BeginReorder(r, u, organizationId, projectId, taskIdsInOrder) ==
  LET q == [IdleReq EXCEPT !.kind = "reorder", !.actor = u,
                           !.role = tokenRole[u],
                           !.organizationId = organizationId,
                           !.projectId = projectId,
                           !.data = [taskIdsInOrder |-> taskIdsInOrder],
                           !.pre = Snapshot, !.roleAtEntry = membership[u]]
  IN /\ reqs[r].pc \in {"idle", "done"}
     /\ started < MaxReorders
     /\ tokenRole[u] \in {"ADMIN", "SUPER_ADMIN", "TEAM_LEADER"}
     /\ started' = started + 1
     /\ reqs' =
          [reqs EXCEPT ![r] =
             IF taskIdsInOrder = << >> THEN Throw(q, "BadRequest", {})
             ELSE IF ~ ProjectFound(projectId, organizationId)
             THEN Throw(q, "NotFound", {})
             ELSE [q EXCEPT !.pc = "findTasks"]]
     /\ UNCHANGED << membership, tokenRole, projectTeamLeads, tasks,
                     taskAssignees, comments, notifications, emitted, io,
                     changes, faults, calc,
                     projects, otherAssignees >>

\* The check made against the tasks of every project.
ExistingTasksAnyProject(projectId, taskIdsInOrder) ==
  {id \in SeqToSet(taskIdsInOrder) : id \in DOMAIN tasks}

\* prisma.task.findMany({ where: { id: { in: taskIdsInOrder }, projectId } }):
\* the ids of the rows found.
ExistingTasks(projectId, taskIdsInOrder) ==
  {id \in SeqToSet(taskIdsInOrder) : TaskFound(id, projectId)}

\* existingTasks.length !== taskIdsInOrder.length, then the throw.
ValidateReorder(r) ==
  LET q == reqs[r]
      taskIdsInOrder == q.data.taskIdsInOrder
  IN /\ q.kind = "reorder"
     /\ q.pc = "findTasks"
     /\ reqs' =
          [reqs EXCEPT ![r] =
             IF Cardinality(ExistingTasks(q.projectId, taskIdsInOrder))
                  # Len(taskIdsInOrder)
             THEN Throw(q, "ValidationError", {})
             ELSE [q EXCEPT !.pc = "transaction"]]
     /\ UNCHANGED << membership, tokenRole, projectTeamLeads, tasks,
                     taskAssignees, comments, notifications, emitted, io,
                     started, changes, faults, calc,
                     projects, otherAssignees >>

\* The index written to the row of id: taskIdsInOrder.map((taskId, index) =>
\* ...), the last update of a row standing.
IndexOf(taskIdsInOrder, id) ==
  (CHOOSE i \in DOMAIN taskIdsInOrder :
     /\ taskIdsInOrder[i] = id
     /\ \A j \in DOMAIN taskIdsInOrder : j > i => taskIdsInOrder[j] # id) - 1

\* prisma.task.update({ where: { id } }) rejects: the row is gone, or the
\* store fails.
UpdateFails(rows, taskIdsInOrder, storeFails) ==
  \/ storeFails
  \/ \E i \in DOMAIN taskIdsInOrder : taskIdsInOrder[i] \notin DOMAIN rows

\* The listed tasks renumbered from 1.
RenumberedFromOne(rows, taskIdsInOrder) ==
  [id \in DOMAIN rows |->
     IF id \in SeqToSet(taskIdsInOrder)
     THEN [rows[id] EXCEPT !.displayOrder = IndexOf(taskIdsInOrder, id) + 1]
     ELSE rows[id]]

\* Every task of the listed tasks' projects renumbered: the omitted tasks
\* moved behind the listed ones.
RenumberedWholeProject(rows, taskIdsInOrder) ==
  [id \in DOMAIN rows |->
     IF id \in SeqToSet(taskIdsInOrder)
     THEN [rows[id] EXCEPT !.displayOrder = IndexOf(taskIdsInOrder, id)]
     ELSE IF \E l \in SeqToSet(taskIdsInOrder) \cap DOMAIN rows :
               rows[l].projectId = rows[id].projectId
          THEN [rows[id] EXCEPT !.displayOrder = @ + Len(taskIdsInOrder)]
          ELSE rows[id]]

\* Only the tasks renumbered that move towards the front.
RenumberedMovedUp(rows, taskIdsInOrder) ==
  [id \in DOMAIN rows |->
     IF /\ id \in SeqToSet(taskIdsInOrder)
        /\ IndexOf(taskIdsInOrder, id) < rows[id].displayOrder
     THEN [rows[id] EXCEPT !.displayOrder = IndexOf(taskIdsInOrder, id)]
     ELSE rows[id]]

\* The rows after every update of the list has run: data: { displayOrder:
\* index } on the row of each listed id.
Renumbered(rows, taskIdsInOrder) ==
  [id \in DOMAIN rows |->
     IF id \in SeqToSet(taskIdsInOrder)
     THEN [rows[id] EXCEPT !.displayOrder = IndexOf(taskIdsInOrder, id)]
     ELSE rows[id]]

\* The updates run one by one outside a transaction: those before the first
\* rejected one stay written.
ReorderNotAtomic(rows, taskIdsInOrder, storeFails) ==
  LET missing == {i \in DOMAIN taskIdsInOrder :
                    taskIdsInOrder[i] \notin DOMAIN rows}
      stop == IF missing # {}
              THEN CHOOSE i \in missing : \A j \in missing : i <= j
              ELSE Len(taskIdsInOrder)
  IN Renumbered(rows, SubSeq(taskIdsInOrder, 1, stop - 1))

\* prisma.$transaction(taskIdsInOrder.map(... prisma.task.update ...)): the
\* rows after it.  One rejected update rolls all of them back.
ReorderTransaction(rows, taskIdsInOrder, storeFails) ==
  IF UpdateFails(rows, taskIdsInOrder, storeFails) THEN rows
  ELSE Renumbered(rows, taskIdsInOrder)

CommitReorder(r, storeFails) ==
  LET q == reqs[r]
      taskIdsInOrder == q.data.taskIdsInOrder
  IN /\ q.kind = "reorder"
     /\ q.pc = "transaction"
     /\ storeFails => faults < MaxFaults
     /\ faults' = IF storeFails THEN faults + 1 ELSE faults
     /\ tasks' = ReorderTransaction(tasks, taskIdsInOrder, storeFails)
     /\ reqs' =
          [reqs EXCEPT ![r] =
             IF UpdateFails(tasks, taskIdsInOrder, storeFails)
             THEN Throw(q, "StoreError", {})
             ELSE Return([q EXCEPT !.did = @ \cup {"reorder"}])]
     /\ UNCHANGED << membership, tokenRole, projectTeamLeads, taskAssignees,
                     comments, notifications, emitted, io, started, changes,
                     calc,
                     projects, otherAssignees >>

\* ------------------------------------------------ deleteTask (handler)

\* deleteTask: the transaction that deletes the comments, the assignee rows
\* and the row of the task.  The two reads before it only decide whether the
\* handler throws, which changes nothing.
DeleteTask(taskId, projectId, organizationId) ==
  /\ ProjectFound(projectId, organizationId)
  /\ TaskFound(taskId, projectId)
  /\ changes < MaxDeletes
  /\ changes' = changes + 1
  /\ tasks' = [id \in (DOMAIN tasks) \ {taskId} |-> tasks[id]]
  /\ comments' = IF taskId = TaskId THEN << >> ELSE comments
  /\ taskAssignees' = IF taskId = TaskId THEN << >> ELSE taskAssignees
  /\ otherAssignees' =
       [id \in (DOMAIN otherAssignees) \ {taskId} |-> otherAssignees[id]]
  /\ UNCHANGED << membership, tokenRole, projectTeamLeads, notifications,
                  emitted, io, reqs, started, faults, calc, projects >>

\* ------------------------------------------------- createTask (handler)

\* The ids the store gives to the tasks it creates, in order of creation.
NewTaskIds == <<"N1", "N2", "N3", "N4", "N5">>

\* body.k of a destructured request body: undefined (falsy, here "") when
\* the key is absent.
Field(body, k) == IF k \in DOMAIN body THEN body[k] ELSE ""

\* assigneesIds = [] when the body has none.
AssigneesIdsOf(body) ==
  IF "assigneesIds" \in DOMAIN body THEN body.assigneesIds ELSE << >>

\* The controller's test: title, color, startDate and endDate are required.
RequiredMissing(body) ==
  \E k \in {"title", "color", "startDate", "endDate"} : Field(body, k) = ""

\* POST /projects/:projectId/tasks behind authorizeRoles(['ADMIN',
\* 'SUPER_ADMIN', 'TEAM_LEADER']): the controller, then the service up to its
\* first read, prisma.project.findUnique.
BeginCreateTask(r, u, organizationId, projectId, body, limit) ==
  LET q == [IdleReq EXCEPT !.kind = "create", !.actor = u,
                           !.role = tokenRole[u], !.data = body,
                           !.organizationId = organizationId,
                           !.projectId = projectId, !.taskId = "-",
                           !.pre = Snapshot, !.roleAtEntry = membership[u]]
  IN /\ reqs[r].pc \in {"idle", "done"}
     /\ started < limit
     /\ tokenRole[u] \in {"ADMIN", "SUPER_ADMIN", "TEAM_LEADER"}
     /\ started' = started + 1
     /\ reqs' =
          [reqs EXCEPT ![r] =
             IF RequiredMissing(body)
             THEN Throw(q, "BadRequest", {})
             ELSE IF ~ ProjectFound(projectId, organizationId)
             THEN Throw(q, "NotFound", {})
             ELSE [q EXCEPT !.pc = IF AssigneesIdsOf(body) # << >>
                                   THEN "validateNew" ELSE "highest"]]
     /\ UNCHANGED << membership, tokenRole, projectTeamLeads, tasks,
                     taskAssignees, comments, notifications, emitted, io,
                     changes, faults, calc, projects, otherAssignees >>

\* prisma.user.findMany over the assignees, then the length test.
ValidateNewAssignees(r) ==
  LET q == reqs[r]
  IN /\ q.kind = "create"
     /\ q.pc = "validateNew"
     /\ reqs' =
          [reqs EXCEPT ![r] =
             IF AssigneesInvalid(AssigneesIdsOf(q.data))
             THEN Throw(q, "InvalidAssignees", {})
             ELSE [q EXCEPT !.pc = "highest"]]
     /\ UNCHANGED << membership, tokenRole, projectTeamLeads, tasks,
                     taskAssignees, comments, notifications, emitted, io,
                     started, changes, faults, calc, projects,
                     otherAssignees >>

\* The displayOrder values of the tasks of a project.
DisplayOrders(rows, projectId) ==
  {rows[id].displayOrder : id \in {t \in DOMAIN rows :
                                     rows[t].projectId = projectId}}

\* The new displayOrder taken as the number of tasks of the project.
NewDisplayOrderByCount(rows, projectId) ==
  Cardinality({t \in DOMAIN rows : rows[t].projectId = projectId})

\* highestDisplayOrderTask ? highestDisplayOrderTask.displayOrder + 1 : 0
NewDisplayOrder(rows, projectId) ==
  IF DisplayOrders(rows, projectId) = {} THEN 0
  ELSE (CHOOSE m \in DisplayOrders(rows, projectId) :
          \A n \in DisplayOrders(rows, projectId) : n <= m) + 1

\* prisma.task.findFirst ordered by displayOrder descending.
FindHighestDisplayOrder(r) ==
  LET q == reqs[r]
  IN /\ q.kind = "create"
     /\ q.pc = "highest"
     /\ reqs' =
          [reqs EXCEPT ![r] =
             [q EXCEPT !.newDisplayOrder = NewDisplayOrder(tasks, q.projectId),
                       !.pc = "create"]]
     /\ UNCHANGED << membership, tokenRole, projectTeamLeads, tasks,
                     taskAssignees, comments, notifications, emitted, io,
                     started, changes, faults, calc, projects,
                     otherAssignees >>

\* The row prisma.task.create writes: status 'מתוכנן' (Planned), the dates
\* through new Date(...).
NewTaskRow(q) ==
  [projectId |-> q.projectId, title |-> q.data.title,
   description |-> Field(q.data, "description"), status |-> "Planned",
   startDate |-> ParseDate(q.data.startDate),
   endDate |-> ParseDate(q.data.endDate),
   expense |-> IF "expense" \in DOMAIN q.data THEN q.data.expense ELSE 0,
   color |-> q.data.color, displayOrder |-> q.newDisplayOrder]

\* prisma.task.create with the nested assignee rows; Prisma rejects a Date
\* that is Invalid Date before it writes anything.
CreateTaskRow(r) ==
  LET q == reqs[r]
      row == NewTaskRow(q)
      id == NewTaskIds[CHOOSE i \in DOMAIN NewTaskIds :
                         /\ NewTaskIds[i] \notin DOMAIN tasks
                         /\ \A j \in 1..(i - 1) : NewTaskIds[j] \in DOMAIN tasks]
  IN /\ q.kind = "create"
     /\ q.pc = "create"
     /\ \E i \in DOMAIN NewTaskIds : NewTaskIds[i] \notin DOMAIN tasks
     /\ IF row.startDate = InvalidDate \/ row.endDate = InvalidDate
        THEN /\ reqs' = [reqs EXCEPT ![r] = Throw(q, "StoreError", {})]
             /\ UNCHANGED << tasks, otherAssignees >>
        ELSE /\ tasks' = (id :> row) @@ tasks
             /\ otherAssignees' =
                  (id :> AssigneesIdsOf(q.data)) @@ otherAssignees
             /\ reqs' =
                  [reqs EXCEPT ![r] =
                     Return([q EXCEPT !.taskId = id,
                                      !.did = @ \cup {"create"}])]
     /\ UNCHANGED << membership, tokenRole, projectTeamLeads, taskAssignees,
                     comments, notifications, emitted, io, started, changes,
                     faults, calc, projects >>

\* ------------------------------------------------ calculateProjectStatus

\* tasks.filter(task => task.status === status).length
CountOf(taskStatuses, status) ==
  Cardinality({i \in DOMAIN taskStatuses : taskStatuses[i] = status})

\* A JavaScript number is an IEEE 754 double: a significand of 53 bits.
SignificandBits == 53

\* A positive double: bits is the significand, most significant bit first
\* (bits[1] = 1), and exponent is the power of two of bits[1].

\* The integer the first n bits spell.
BitsValue(bits, n) ==
  LET V[i \in 0..n] == IF i = 0 THEN 0 ELSE 2 * V[i - 1] + bits[i]
  IN V[n]

\* The significand plus one unit in its last place.
NextUp(bits, exponent) ==
  IF \A i \in 1..SignificandBits : bits[i] = 1
  THEN [bits |-> [i \in 1..SignificandBits |-> IF i = 1 THEN 1 ELSE 0],
        exponent |-> exponent + 1]
  ELSE LET j == CHOOSE k \in 1..SignificandBits :
                  /\ bits[k] = 0
                  /\ \A l \in (k + 1)..SignificandBits : bits[l] = 1
       IN [bits |-> [i \in 1..SignificandBits |->
                       IF i < j THEN bits[i] ELSE IF i = j THEN 1 ELSE 0],
           exponent |-> exponent]

\* The rounding of every arithmetic operation: to the nearest double, a tie
\* going to the even significand.  guard is the first discarded bit, sticky
\* tells whether a later discarded bit is set.
RoundToNearestEven(bits, exponent, guard, sticky) ==
  IF guard = 1 /\ (sticky \/ bits[SignificandBits] = 1)
  THEN NextUp(bits, exponent)
  ELSE [bits |-> bits, exponent |-> exponent]

\* 2^k modulo d, by repeated squaring.
RECURSIVE PowerOfTwoMod(_, _)
PowerOfTwoMod(k, d) ==
  IF k = 0 THEN 1 % d
  ELSE LET half == PowerOfTwoMod(k \div 2, d)
       IN (half * half * (IF k % 2 = 1 THEN 2 ELSE 1)) % d

\* completedTasks / totalTasks for 1 <= n <= d: binary long division.  The
\* quotient is scaled into [1, 2); the remainder after i quotient bits is
\* n * 2^(shift + i - 1) modulo d, and the next bit is 1 when twice the
\* remainder reaches d.  53 bits are kept, the next bit and the last
\* remainder decide the rounding.
DoubleDivide(n, d) ==
  LET shift == CHOOSE s \in 0..20 :
                 /\ n * 2^s >= d
                 /\ s = 0 \/ n * 2^(s - 1) < d
      rem(i) == (n * PowerOfTwoMod(shift + i - 1, d)) % d
      quotient == [i \in 1..(SignificandBits + 1) |->
                     IF i = 1 \/ 2 * rem(i - 1) >= d THEN 1 ELSE 0]
  IN RoundToNearestEven(SubSeq(quotient, 1, SignificandBits), 0 - shift,
                        quotient[SignificandBits + 1],
                        rem(SignificandBits + 1) # 0)

\* The multiplication works on limbs of 15 bits: 4 limbs hold the 53 bits of
\* a significand and the 7 bits a factor below 128 adds.
LimbBits == 15
Limbs == 4

\* One limb of the product x * k, from the least significant limb up: the
\* limb of x times k plus the carry, split into a limb and the next carry.
TimesStep(prev, limb, k) ==
  [out |-> <<(k * limb + prev.carry) % 2^LimbBits>> \o prev.out,
   carry |-> (k * limb + prev.carry) \div 2^LimbBits]

\* x * k for a double x and an integer 1 <= k < 128: the exact product of
\* the significand, then rounded to 53 bits.
DoubleTimes(x, k) ==
  LET width == Limbs * LimbBits
      padded == [i \in 1..(width - SignificandBits) |-> 0] \o x.bits
      limb(j) == BitsValue(SubSeq(padded, LimbBits * (j - 1) + 1,
                                  LimbBits * j), LimbBits)
      M[j \in 0..Limbs] ==
        IF j = 0
        THEN [out |-> << >>, carry |-> 0]
        ELSE TimesStep(M[j - 1], limb(Limbs + 1 - j), k)
      product == [p \in 1..width |->
                    (M[Limbs].out[(p - 1) \div LimbBits + 1]
                       \div 2^(LimbBits - 1 - ((p - 1) % LimbBits))) % 2]
      first == CHOOSE p \in 1..width :
                 product[p] = 1 /\ \A q \in 1..(p - 1) : product[q] = 0
      last == first + SignificandBits - 1
  IN RoundToNearestEven(SubSeq(product, first, last),
                        x.exponent + (width - SignificandBits) - (first - 1),
                        IF last < width THEN product[last + 1] ELSE 0,
                        \E p \in (last + 2)..width : product[p] = 1)

\* Math.round(x) for a positive double below 2^52: the integer part, plus
\* one when the bit of weight 1/2 is set (a half goes up).
MathRound(x) ==
  IF x.exponent < -1 THEN 0
  ELSE BitsValue(x.bits, x.exponent + 1) + x.bits[x.exponent + 2]

\* Math.round((completedTasks / totalTasks) * 100) in double arithmetic;
\* 0 / totalTasks is 0 and stays 0.
RoundedPercentage(completedTasks, totalTasks) ==
  IF completedTasks = 0 THEN 0
  ELSE MathRound(DoubleTimes(DoubleDivide(completedTasks, totalTasks), 100))

\* The completion test placed before the stuck test.
StatusOfCompletionFirst(stuckTasks, completionPercentage, everyPlanned) ==
  IF completionPercentage = 100 THEN "Completed"
  ELSE IF stuckTasks > 0 THEN "AtRisk"
  ELSE IF completionPercentage = 0 /\ everyPlanned THEN "Planned"
  ELSE "InProgress"

\* The third test without tasks.every(...).
StatusOfZeroIsPlanned(stuckTasks, completionPercentage, everyPlanned) ==
  IF stuckTasks > 0 THEN "AtRisk"
  ELSE IF completionPercentage = 100 THEN "Completed"
  ELSE IF completionPercentage = 0 THEN "Planned"
  ELSE "InProgress"

\* The if / else if chain: 'בסיכון' (AtRisk), 'הושלם' (Completed), 'מתוכנן'
\* (Planned), 'בתהליך' (InProgress).
StatusOf(stuckTasks, completionPercentage, everyPlanned) ==
  IF stuckTasks > 0 THEN "AtRisk"
  ELSE IF completionPercentage = 100 THEN "Completed"
  ELSE IF completionPercentage = 0 /\ everyPlanned THEN "Planned"
  ELSE "InProgress"

\* calculateProjectStatus(tasks), each task given by its status.
calculateProjectStatus(taskStatuses) ==
  IF Len(taskStatuses) = 0
  THEN [status |-> "Planned", completionPercentage |-> 0]
  ELSE LET totalTasks == Len(taskStatuses)
           completedTasks == CountOf(taskStatuses, "Completed")
           stuckTasks == CountOf(taskStatuses, "Stuck")
           completionPercentage ==
             RoundedPercentage(completedTasks, totalTasks)
           everyPlanned ==
             \A i \in DOMAIN taskStatuses : taskStatuses[i] = "Planned"
       IN [status |-> StatusOf(stuckTasks, completionPercentage, everyPlanned),
           completionPercentage |-> completionPercentage]

\* A caller (getProjects, getProjectById) computes the status of a project
\* from its tasks.
Calculate ==
  /\ ~ calc.called
  /\ calc' =
       [tasks |-> calc.tasks, called |-> TRUE,
        status |-> calculateProjectStatus(calc.tasks).status,
        completionPercentage |->
          calculateProjectStatus(calc.tasks).completionPercentage]
  /\ UNCHANGED << membership, tokenRole, projectTeamLeads, tasks,
                  taskAssignees, comments, notifications, emitted, io, reqs,
                  started, changes, faults,
                  projects, otherAssignees >>

\* ------------------------------------------- updateProject, getProjects

\* The keys of a request body the updateProject controller keeps.
allowedUpdates ==
  {"title", "description", "teamLeads", "teamIds", "startDate", "endDate",
   "status", "monthlyBudgets"}

\* The row after prisma.project.update: the columns named in dataToUpdate
\* take its values.
UpdatedProject(project, dataToUpdate) ==
  [k \in DOMAIN project |->
     IF k \in DOMAIN dataToUpdate THEN dataToUpdate[k] ELSE project[k]]

\* PUT /projects/:projectId behind authorizeRoles(['ADMIN', 'SUPER_ADMIN',
\* 'TEAM_LEADER']): the controller's filter, prisma.project.findUnique, then
\* prisma.project.update with every kept key but teamLeads and
\* monthlyBudgets.
UpdateProject(u, organizationId, projectId, body, limit) ==
  LET filteredUpdateData == Restrict(body, allowedUpdates)
      dataToUpdate ==
        Restrict(filteredUpdateData,
                 allowedUpdates \ {"teamLeads", "monthlyBudgets"})
  IN /\ Quiet
     /\ started < limit
     /\ tokenRole[u] \in {"ADMIN", "SUPER_ADMIN", "TEAM_LEADER"}
     /\ DOMAIN filteredUpdateData # {}
     /\ ProjectFound(projectId, organizationId)
     /\ started' = started + 1
     /\ projects' =
          [projects EXCEPT
             ![projectId] = UpdatedProject(projects[projectId], dataToUpdate)]
     /\ UNCHANGED << membership, tokenRole, projectTeamLeads, tasks,
                     taskAssignees, comments, notifications, emitted, io,
                     reqs, changes, faults, calc, otherAssignees >>

\* The ids of the tasks of a project, ordered by displayOrder ascending.
TasksInOrder(rows, projectId) ==
  LET ids == {t \in DOMAIN rows : rows[t].projectId = projectId}
  IN CHOOSE s \in [1..Cardinality(ids) -> ids] :
       /\ \A i, j \in DOMAIN s : i # j => s[i] # s[j]
       /\ \A i, j \in DOMAIN s :
            i < j => rows[s[i]].displayOrder <= rows[s[j]].displayOrder

\* The tasks included with a project, each given by its status.
StatusesOf(rows, projectId) ==
  [i \in 1..Len(TasksInOrder(rows, projectId)) |->
     rows[TasksInOrder(rows, projectId)[i]].status]

\* The listing that lets a stored status column win over the derived one.
ListedProjectStored(project) ==
  [status |-> IF project.status # "-" THEN project.status
              ELSE calculateProjectStatus(project.tasks).status,
   completionPercentage |->
     calculateProjectStatus(project.tasks).completionPercentage]

\* { ...project, status, completionPercentage }: the derived pair replaces
\* whatever the row holds.
ListedProject(project) ==
  [status |-> calculateProjectStatus(project.tasks).status,
   completionPercentage |->
     calculateProjectStatus(project.tasks).completionPercentage]

\* GET /projects: getAllProjects reads the projects of the organization with
\* their tasks (for an EMPLOYEE token only the projects the user leads), and
\* the controller derives the status of each.  projectId is the project of
\* the listing that is looked at.
GetProjects(r, u, organizationId, projectId) ==
  LET project == [status |-> projects[projectId].status,
                  tasks |-> StatusesOf(tasks, projectId)]
      q == [IdleReq EXCEPT !.kind = "list", !.actor = u,
                           !.role = tokenRole[u],
                           !.organizationId = organizationId,
                           !.projectId = projectId, !.pre = Snapshot,
                           !.roleAtEntry = membership[u]]
  IN /\ Quiet
     /\ ~ calc.called
     /\ tokenRole[u] \in Roles
     /\ ProjectFound(projectId, organizationId)
     /\ tokenRole[u] = "EMPLOYEE" =>
          u \in SeqToSet(projectTeamLeads[projectId])
     /\ calc' =
          [tasks |-> project.tasks, called |-> TRUE,
           status |-> ListedProject(project).status,
           completionPercentage |->
             ListedProject(project).completionPercentage]
     /\ reqs' = [reqs EXCEPT ![r] = Return(q)]
     /\ UNCHANGED << membership, tokenRole, projectTeamLeads, tasks,
                     taskAssignees, comments, notifications, emitted, io,
                     started, changes, faults, projects, otherAssignees >>

\* ----------------------------------------------- administrative changes

\* verifyOtpAndLogin / loginWithEmail: a fresh token with the current role.
Login(u) ==
  /\ membership[u] # NoRole
  /\ tokenRole[u] # membership[u]
  /\ started < MaxRequests
  /\ tokenRole' = [tokenRole EXCEPT ![u] = membership[u]]
  /\ UNCHANGED << membership, projectTeamLeads, tasks, taskAssignees, comments,
                  notifications, emitted, io, reqs, started, changes, faults, calc,
                  projects, otherAssignees >>

\* updateUserRoleInOrg, behind authorizeRoles(['ADMIN', 'SUPER_ADMIN']).
UpdateUserRoleInOrg(currentUserId, targetUserId, newRole) ==
  LET currentUserRole == tokenRole[currentUserId]
      targetUserRole == membership[targetUserId]
  IN /\ currentUserRole \in {"ADMIN", "SUPER_ADMIN"}
     /\ targetUserId # currentUserId
     /\ targetUserRole # NoRole
     /\ ~ (ROLE_HIERARCHY[currentUserRole] <= ROLE_HIERARCHY[targetUserRole]
           \/ ROLE_HIERARCHY[currentUserRole] <= ROLE_HIERARCHY[newRole])
     /\ newRole # targetUserRole
     /\ changes < MaxChanges
     /\ started < MaxRequests
     /\ changes' = changes + 1
     /\ membership' = [membership EXCEPT ![targetUserId] = newRole]
     /\ UNCHANGED << tokenRole, projectTeamLeads, tasks, taskAssignees,
                     comments, notifications, emitted, io, reqs, started,
                     faults, calc,
                     projects, otherAssignees >>

\* updateProject with teamLeads: the lead rows of the project are replaced.
UpdateProjectTeamLeads(p, newTeamLeadIds) ==
  /\ Cardinality({id \in SeqToSet(newTeamLeadIds) : membership[id] # NoRole})
       = Len(newTeamLeadIds)
  /\ newTeamLeadIds # projectTeamLeads[p]
  /\ changes < MaxChanges
  /\ started < MaxRequests
  /\ changes' = changes + 1
  /\ projectTeamLeads' = [projectTeamLeads EXCEPT ![p] = newTeamLeadIds]
  /\ UNCHANGED << membership, tokenRole, tasks, taskAssignees, comments,
                  notifications, emitted, io, reqs, started, faults, calc,
                  projects, otherAssignees >>

\* removeUserFromOrg, behind authorizeRoles(['ADMIN', 'SUPER_ADMIN']): the
\* membership read, the hierarchy test on the token's role, then the
\* transaction that deletes the user's assignee rows, lead rows and comments
\* in the organization's projects and the membership itself.
RemoveUserFromOrg(currentUserId, targetUserId, organizationId) ==
  LET currentUserRole == tokenRole[currentUserId]
      targetUserRole == membership[targetUserId]
      inOrg(projectId) == ProjectOrganization[projectId] = organizationId
  IN /\ currentUserRole \in {"ADMIN", "SUPER_ADMIN"}
     /\ targetUserId # currentUserId
     /\ organizationId = Organization
     /\ targetUserRole # NoRole
     /\ ~ (ROLE_HIERARCHY[currentUserRole] <= ROLE_HIERARCHY[targetUserRole])
     /\ changes < MaxChanges
     /\ changes' = changes + 1
     /\ taskAssignees' =
          IF TaskId \in DOMAIN tasks /\ inOrg(tasks[TaskId].projectId)
          THEN Without(taskAssignees, {targetUserId}) ELSE taskAssignees
     /\ otherAssignees' =
          [id \in DOMAIN otherAssignees |->
             IF inOrg(tasks[id].projectId)
             THEN Without(otherAssignees[id], {targetUserId})
             ELSE otherAssignees[id]]
     /\ projectTeamLeads' =
          [p \in DOMAIN projectTeamLeads |->
             IF inOrg(p) THEN Without(projectTeamLeads[p], {targetUserId})
             ELSE projectTeamLeads[p]]
     /\ comments' = Without(comments, {targetUserId})
     /\ membership' = [membership EXCEPT ![targetUserId] = NoRole]
     /\ UNCHANGED << tokenRole, tasks, notifications, emitted, io, reqs,
                     started, faults, calc, projects >>

\* Roles a role update may carry.
NewRoles == {"EMPLOYEE", "ADMIN"}

\* Lead lists an updateProject request may carry.
LeadLists == { << >>, <<"C">> }

\* ---------------------------------------------------------- specification

\* Requests are served one after another: a request enters when no handler
\* is in flight.
Next ==
  \/ \E u \in Users, body \in UpdatePayloads :
       Quiet /\ BeginUpdateTask(1, u, body)
  \/ \E u \in Users : Quiet /\ BeginAddComment(1, u)
  \/ \E r \in Slots : FindTask(r)
  \/ \E r \in Slots : FindTaskForComment(r)
  \/ \E r \in Slots : CreateComment(r)
  \/ \E r \in Slots : ValidateAssignees(r)
  \/ \E r \in Slots, createFails \in BOOLEAN : ReplaceAssignees(r, createFails)
  \/ \E r \in Slots : UpdateTaskRow(r)
  \/ \E r \in Slots, outcome \in {"sent", "createFails", "emitFails"} :
       CreateAndSendNotification(r, outcome)
  \/ \E u \in Users : Quiet /\ Login(u)
  \/ \E cu \in Users, tu \in Users, ro \in NewRoles :
       Quiet /\ UpdateUserRoleInOrg(cu, tu, ro)
  \/ \E l \in LeadLists : Quiet /\ UpdateProjectTeamLeads(TaskProject, l)

Spec == Init /\ [][Next]_vars

\* Organizations an X-Organization-Id header may name.
Organizations == {"O1", "O2"}

\* Task ids a request path may name: the task and an id of no task.
TaskIdInputs == {TaskId, "T9"}

\* Request bodies of the requests that name any project and task.
LookupPayloads ==
  { [status |-> "Completed"],
    [title |-> "t1"],
    [assigneesIds |-> <<"B", "C">>] }

\* updateTask requests naming any organization, project and task, served one
\* after another.
NextLookup ==
  \/ \E u \in Users, o \in Organizations, p \in DOMAIN ProjectOrganization,
        t \in TaskIdInputs, body \in LookupPayloads :
       Quiet /\ BeginUpdateTaskAt(1, u, o, p, t, body)
  \/ \E r \in Slots : FindTask(r)
  \/ \E r \in Slots : ValidateAssignees(r)
  \/ \E r \in Slots, createFails \in BOOLEAN : ReplaceAssignees(r, createFails)
  \/ \E r \in Slots : UpdateTaskRow(r)
  \/ \E r \in Slots, outcome \in {"sent", "createFails", "emitFails"} :
       CreateAndSendNotification(r, outcome)

SpecLookup == Init /\ [][NextLookup]_vars

\* Lists a reorder request may carry: orders of the project's three tasks, a
\* list that omits one, lists naming a task of the other project, an id of no
\* task or a task twice, and the empty list.
ReorderLists ==
  { <<"T3", "T1", "T2">>, <<"T2", "T3", "T1">>, <<"T2", "T1">>,
    <<"T3", "T1", "T4">>, <<"T1", "T9">>, <<"T1", "T1", "T2">>, << >> }

\* Tasks a deleteTask request may name.
DeletableTasks == {"T2", "T3"}

\* reorderTasks requests served one after another.
NextReorder ==
  \/ \E u \in Users, l \in ReorderLists :
       Quiet /\ BeginReorder(1, u, Organization, TaskProject, l)
  \/ \E r \in Slots : ValidateReorder(r)
  \/ \E r \in Slots, storeFails \in BOOLEAN : CommitReorder(r, storeFails)

SpecReorder == Init /\ [][NextReorder]_vars

\* reorderTasks requests in flight together, and deleteTask between their
\* steps.
NextConcurrent ==
  \/ \E r \in Slots, u \in Users, l \in ReorderLists :
       BeginReorder(r, u, Organization, TaskProject, l)
  \/ \E r \in Slots : ValidateReorder(r)
  \/ \E r \in Slots, storeFails \in BOOLEAN : CommitReorder(r, storeFails)
  \/ \E t \in DeletableTasks : DeleteTask(t, TaskProject, Organization)

\* The server started on the store whose project has one lead, B, and whose
\* task has the assignees A and B.
InitConcurrent ==
  /\ Init
  /\ projectTeamLeads[TaskProject] = <<"B">>
  /\ taskAssignees = <<"A", "B">>

SpecConcurrent == InitConcurrent /\ [][NextConcurrent]_vars

\* Request bodies of POST /projects/:projectId/tasks: complete ones, without
\* and with assignees, one naming a user who is no member, ones without a
\* start or an end date, and one whose start date does not parse.
CreatePayloads ==
  { [title |-> "n1", color |-> "c1", startDate |-> "2025-01-01",
     endDate |-> "2025-02-01"],
    [title |-> "n1", color |-> "c1", startDate |-> "2025-01-01",
     endDate |-> "2025-02-01", assigneesIds |-> <<"B">>],
    [title |-> "n1", color |-> "c1", startDate |-> "2025-01-01",
     endDate |-> "2025-02-01", assigneesIds |-> <<"C", "X">>],
    [title |-> "n1", color |-> "c1", startDate |-> "2025-01-01"],
    [title |-> "n1", color |-> "c1", endDate |-> "2025-02-01"],
    [title |-> "n1", color |-> "c1", startDate |-> "garbage",
     endDate |-> "2025-02-01"] }

\* Request bodies of the status updates of the task.
StatusPayloads == { [status |-> "Completed"], [status |-> "Stuck"] }

\* Request bodies of PUT /projects/:projectId.
ProjectPayloads ==
  { [status |-> "Completed"], [status |-> "Planned", title |-> "p1"],
    [title |-> "p1"] }

\* Projects of the organization.
OwnProjects == {p \in DOMAIN ProjectOrganization :
                  ProjectOrganization[p] = Organization}

\* Tasks a deleteTask request of the life cycle may name: one that is not
\* the last of its project, and the only task of the other project.
LifecycleDeletes == {"T2", "T4"}

\* Task creations, status updates, deletions, project updates and the
\* project listing, served one after another.
NextTasks ==
  \/ \E u \in Users, p \in OwnProjects, body \in CreatePayloads :
       Quiet /\ BeginCreateTask(1, u, Organization, p, body, MaxOperations)
  \/ \E r \in Slots : ValidateNewAssignees(r)
  \/ \E r \in Slots : FindHighestDisplayOrder(r)
  \/ \E r \in Slots : CreateTaskRow(r)
  \/ \E u \in Users, body \in StatusPayloads :
       Quiet /\ ServeUpdateTask(1, u, Organization, TaskProject, TaskId, body,
                                MaxOperations)
  \/ \E r \in Slots : FindTask(r)
  \/ \E r \in Slots : UpdateTaskRow(r)
  \/ \E t \in LifecycleDeletes :
       Quiet /\ DeleteTask(t, InitialTasks[t].projectId, Organization)
  \/ \E u \in Users, body \in ProjectPayloads :
       UpdateProject(u, Organization, TaskProject, body, MaxOperations)
  \/ \E u \in Users, p \in OwnProjects : GetProjects(1, u, Organization, p)

\* The server started on the store whose task has no assignee and whose
\* project has no lead.
InitTasks ==
  /\ Init
  /\ projectTeamLeads[TaskProject] = << >>
  /\ taskAssignees = << >>

SpecTasks == InitTasks /\ [][NextTasks]_vars

\* Request bodies of the updateTask requests in flight together: status
\* changes, a change of another column, and replacements of the assignees.
RacePayloads ==
  { [status |-> "Completed"],
    [status |-> "Planned"],
    [title |-> "t1"],
    [assigneesIds |-> <<"B", "C">>],
    [assigneesIds |-> <<"A">>] }

\* updateTask requests on the task in flight together, one in each slot.
NextRace ==
  \/ \E r \in Slots, u \in Users, body \in RacePayloads :
       /\ reqs[r].pc = "idle"
       /\ ServeUpdateTask(r, u, Organization, TaskProject, TaskId, body,
                          Cardinality(Slots))
  \/ \E r \in Slots : FindTask(r)
  \/ \E r \in Slots : ValidateAssignees(r)
  \/ \E r \in Slots : ReplaceAssignees(r, FALSE)
  \/ \E r \in Slots : UpdateTaskRow(r)
  \/ \E r \in Slots : CreateAndSendNotification(r, "sent")

SpecRace == InitConcurrent /\ [][NextRace]_vars

\* Request bodies of the createTask requests in flight together: without and
\* with assignees.
RaceCreatePayloads ==
  { [title |-> "n1", color |-> "c1", startDate |-> "2025-01-01",
     endDate |-> "2025-02-01"],
    [title |-> "n2", color |-> "c1", startDate |-> "2025-01-01",
     endDate |-> "2025-02-01", assigneesIds |-> <<"B">>] }

\* Request bodies of the assignee replacements in flight with them.
RaceReplacePayloads ==
  { [assigneesIds |-> <<"B", "C">>], [assigneesIds |-> <<"A">>] }

\* createTask and updateTask requests on the project in flight together, one
\* in each slot, and removeUserFromOrg between their steps.
NextCreate ==
  \/ \E r \in Slots, u \in Users, body \in RaceCreatePayloads :
       /\ reqs[r].pc = "idle"
       /\ BeginCreateTask(r, u, Organization, TaskProject, body,
                          Cardinality(Slots))
  \/ \E r \in Slots : ValidateNewAssignees(r)
  \/ \E r \in Slots : FindHighestDisplayOrder(r)
  \/ \E r \in Slots : CreateTaskRow(r)
  \/ \E r \in Slots, u \in Users, body \in RaceReplacePayloads :
       /\ reqs[r].pc = "idle"
       /\ ServeUpdateTask(r, u, Organization, TaskProject, TaskId, body,
                          Cardinality(Slots))
  \/ \E r \in Slots : FindTask(r)
  \/ \E r \in Slots : ValidateAssignees(r)
  \/ \E r \in Slots : ReplaceAssignees(r, FALSE)
  \/ \E r \in Slots : UpdateTaskRow(r)
  \/ \E r \in Slots : CreateAndSendNotification(r, "sent")
  \/ \E a \in Users, u \in Users : RemoveUserFromOrg(a, u, Organization)

SpecCreate == InitConcurrent /\ [][NextCreate]_vars

\* ------------------------------------------------------- the other tenant

\* The task of the other organization's project.
ForeignTaskId == "T5"

\* The task rows of both organizations: the task of project "P3" belongs to
\* organization "O2".
TenantTasks ==
  (ForeignTaskId :> [InitialTask EXCEPT !.projectId = "P3", !.title = "t5"])
    @@ InitialTasks

\* prisma.membership: the role of the user in the organization.  The users
\* hold memberships of their own organization only.
MembershipIn(u, organizationId) ==
  IF organizationId = Organization THEN membership[u] ELSE NoRole

\* The server started on a store that holds both organizations.
InitTenant ==
  /\ \E s \in InitialStores :
       /\ membership = s.roles
       /\ projectTeamLeads = s.leads
       /\ taskAssignees = s.assignees
  /\ tokenRole = membership
  /\ tasks = TenantTasks
  /\ comments = << >>
  /\ notifications = EmptyBag
  /\ emitted = EmptyBag
  /\ io = TRUE
  /\ reqs = [r \in Slots |-> IdleReq]
  /\ started = 0
  /\ changes = 0
  /\ faults = 0
  /\ calc = NoCall
  /\ projects = InitialProjects
  /\ otherAssignees = (ForeignTaskId :> << >>) @@ NoAssignees

\* Request bodies of the requests sent under either organization header.
TenantPayloads ==
  { [status |-> "Completed"],
    [title |-> "t1"],
    [status |-> "Stuck", title |-> "t1"] }

\* updateTask requests under either X-Organization-Id header, on the task of
\* either organization, served one after another with the token each user
\* was issued for the own organization.
NextTenant ==
  \/ \E u \in Users, o \in Organizations, t \in {TaskId, ForeignTaskId},
        body \in TenantPayloads :
       /\ Quiet
       /\ ServeUpdateTask(1, u, o, TenantTasks[t].projectId, t, body,
                          MaxOperations)
  \/ \E r \in Slots : FindTask(r)
  \/ \E r \in Slots : UpdateTaskRow(r)
  \/ \E r \in Slots : CreateAndSendNotification(r, "sent")

SpecTenant == InitTenant /\ [][NextTenant]_vars

\* A list of n tasks, all of one status.
Repeat(status, n) == [i \in 1..n |-> status]

\* The task lists calculateProjectStatus is called on: every list of up to
\* MaxTasks statuses, the medium lists with any number of Completed tasks
\* before tasks in progress, and the long lists with all tasks Completed but
\* the last.
StatusInputs ==
  UNION {[1..n -> Statuses] : n \in 0..MaxTasks}
    \cup {Repeat("Completed", c) \o Repeat("InProgress", MediumLength - c) :
            c \in 0..MediumLength}
    \cup {Repeat("Completed", LongLength - 1) \o <<st>> : st \in Statuses}

\* The server started on the store without assignees; one list is drawn.
InitStatus ==
  /\ \E s \in InitialStores :
       /\ membership = s.roles
       /\ projectTeamLeads = s.leads
       /\ taskAssignees = s.assignees
       /\ s.assignees = << >>
  /\ tokenRole = membership
  /\ tasks = InitialTasks
  /\ comments = << >>
  /\ notifications = EmptyBag
  /\ emitted = EmptyBag
  /\ io = TRUE
  /\ reqs = [r \in Slots |-> IdleReq]
  /\ started = 0
  /\ changes = 0
  /\ faults = 0
  /\ \E ts \in StatusInputs : calc = [NoCall EXCEPT !.tasks = ts]
  /\ projects = InitialProjects
  /\ otherAssignees = NoAssignees

NextStatus == Calculate

\* calculateProjectStatus applied to each list.
SpecStatus == InitStatus /\ [][NextStatus]_vars

\* The same requests served without a Socket.IO server attached.
SpecDetached == InitDetached /\ [][Next]_vars


\* ------------------------------------------------------------- properties

\* The requests that have returned or thrown.
Finished == {r \in Slots : reqs[r].pc = "done"}

\* The finished calls of the service's updateTask: the controller passes a
\* request on when it keeps at least one field.
FinishedUpdates ==
  {r \in Finished : reqs[r].kind = "update" /\ DOMAIN reqs[r].data # {}}

\* Section 4.2 of the specification: who may change every field.
MayUpdateAll(role, u, leads) ==
  \/ role \in {"ADMIN", "SUPER_ADMIN"}
  \/ role = "TEAM_LEADER" /\ u \in SeqToSet(leads)

\* The actor of q is an assignee of the task and nothing more.
AssigneeOnly(q) ==
  /\ q.actor \in SeqToSet(q.pre.assignees)
  /\ ~ MayUpdateAll(q.role, q.actor, q.pre.leads)

\* The store holds what it held when q entered: no column of the task, no
\* assignee row and no notification was written.
NothingWritten(q) ==
  /\ task = q.pre.task
  /\ taskAssignees = q.pre.assignees
  /\ notifications = q.pre.notifications

\* The notifications written since q entered.
Added(q) == notifications (-) q.pre.notifications

\* The notifications of one type and wording written to u since q entered.
AddedFor(q, u, type, what) ==
  {n \in BagToSet(Added(q)) :
     n.userId = u /\ n.type = type /\ n.text.what = what}

\* Exactly one notification of that type and wording went to u.
ExactlyOne(q, u, type, what) ==
  /\ Cardinality(AddedFor(q, u, type, what)) = 1
  /\ \A n \in AddedFor(q, u, type, what) : CopiesIn(n, Added(q)) = 1

\* C1: an actor who is an assignee of the task and neither Admin, SuperAdmin
\* nor TeamLeader-and-lead of the project changes the status with a
\* status-only request; with any other field in the request the call fails
\* with PermissionDenied naming exactly the non-status fields, and no column,
\* assignee row or notification is written.
C1_AssigneeStatusOnly ==
  \A r \in FinishedUpdates :
    LET q == reqs[r]
    IN AssigneeOnly(q) =>
         IF DOMAIN q.data = {"status"}
         THEN /\ q.result = "ok" \/ q.failedFor # {}
              /\ task = [q.pre.task EXCEPT !.status = q.data.status]
              /\ taskAssignees = q.pre.assignees
         ELSE /\ q.result = "PermissionDenied"
              /\ q.named = (DOMAIN q.data) \ {"status"}
              /\ NothingWritten(q)

\* An assignee-only Employee asked for status and title and was refused, the
\* message naming title.
C1_Witness ==
  \E r \in FinishedUpdates :
    /\ AssigneeOnly(reqs[r])
    /\ reqs[r].role = "EMPLOYEE"
    /\ DOMAIN reqs[r].data = {"status", "title"}
    /\ reqs[r].result = "PermissionDenied"
    /\ reqs[r].named = {"title"}

\* The value a requested field has in the store once it is written.
Stored(f, v) == IF f \in {"startDate", "endDate"} THEN ParseDate(v) ELSE v

\* C2: an Admin, a SuperAdmin, or a TeamLeader listed as lead of this project
\* is never refused, whatever fields of the nine are requested and whether or
\* not the actor is an assignee, and a request that returns has written every
\* requested field; a TeamLeader who leads only another project and an
\* Employee listed as lead are refused any field other than status.
C2_ManagersUpdateAllFields ==
  \A r \in FinishedUpdates :
    LET q == reqs[r]
    IN /\ MayUpdateAll(q.role, q.actor, q.pre.leads) =>
            /\ q.result # "PermissionDenied"
            /\ q.result = "ok" =>
                 /\ \A f \in (DOMAIN q.data) \cap ScalarFields :
                      task[f] = Stored(f, q.data[f])
                 /\ "assigneesIds" \in DOMAIN q.data =>
                      taskAssignees = q.data.assigneesIds
       /\ ( /\ ~ MayUpdateAll(q.role, q.actor, q.pre.leads)
            /\ (DOMAIN q.data) \ {"status"} # {} ) =>
            q.result = "PermissionDenied" /\ NothingWritten(q)

\* A TeamLeader who leads the project and is no assignee changed all nine
\* fields.
C2_Witness ==
  \E r \in FinishedUpdates :
    /\ reqs[r].role = "TEAM_LEADER"
    /\ reqs[r].actor \in SeqToSet(reqs[r].pre.leads)
    /\ reqs[r].actor \notin SeqToSet(reqs[r].pre.assignees)
    /\ DOMAIN reqs[r].data = allowedUpdatesForManager
    /\ reqs[r].result = "ok"
    /\ task.title = "t1"

\* C3: an actor who is not Admin or SuperAdmin, not TeamLeader-and-lead of
\* the project and not an assignee of the task is refused with
\* PermissionDenied for every field set, and the task, its assignees and the
\* notifications stay as they were.
C3_OthersRefused ==
  \A r \in FinishedUpdates :
    LET q == reqs[r]
    IN ( /\ ~ MayUpdateAll(q.role, q.actor, q.pre.leads)
         /\ q.actor \notin SeqToSet(q.pre.assignees) ) =>
         /\ q.result = "PermissionDenied"
         /\ q.named = {}
         /\ NothingWritten(q)

\* A TeamLeader who leads only the other project and is no assignee asked for
\* a status change and was refused.
C3_Witness ==
  \E r \in FinishedUpdates :
    /\ reqs[r].role = "TEAM_LEADER"
    /\ reqs[r].actor \in SeqToSet(projectTeamLeads["P2"])
    /\ reqs[r].actor \notin SeqToSet(reqs[r].pre.leads)
    /\ reqs[r].actor \notin SeqToSet(reqs[r].pre.assignees)
    /\ DOMAIN reqs[r].data = {"status"}
    /\ reqs[r].result = "PermissionDenied"


\* Section 4.2 applied to a role: the request of q is refused.
Refused(role, q) ==
  /\ ~ MayUpdateAll(role, q.actor, q.pre.leads)
  /\ \/ q.actor \notin SeqToSet(q.pre.assignees)
     \/ DOMAIN q.data # {"status"}

\* C4: every updateTask is decided on the actor's organization role and lead
\* membership as they are when the request is made: a request that this
\* role and these leads refuse is refused, whatever the actor's role was
\* before.
C4_DecidedOnCurrentRole ==
  \A r \in FinishedUpdates :
    LET q == reqs[r]
    IN Refused(q.roleAtEntry, q) => q.result = "PermissionDenied"

\* The request carries a startDate or endDate that is no date.
HasBadDate(data) ==
  \E f \in (DOMAIN data) \cap {"startDate", "endDate"} :
    data[f] # "" /\ ParseDate(data[f]) = InvalidDate

\* C5: an updateTask that carries an unparseable startDate or endDate fails
\* and leaves the task's columns, its assignee rows and the notifications as
\* they were, also when it carries a valid assignee replacement.
C5_BadDateWritesNothing ==
  \A r \in FinishedUpdates :
    LET q == reqs[r]
    IN HasBadDate(q.data) => q.result # "ok" /\ NothingWritten(q)

\* The ids of a replacement set that resolve to no member of the organization.
InvalidIds(q) ==
  IF "assigneesIds" \in DOMAIN q.data
  THEN SeqToSet(q.data.assigneesIds) \ q.pre.members
  ELSE {}

\* C6: an updateTask whose replacement set holds an id that is no member of
\* the organization fails, and the task's assignee rows, its columns and the
\* notifications are as they were before the request.
C6_InvalidAssigneeWritesNothing ==
  \A r \in FinishedUpdates :
    LET q == reqs[r]
    IN InvalidIds(q) # {} => q.result # "ok" /\ NothingWritten(q)

\* A manager's replacement set named a stranger and was rejected by the
\* membership check.
C6_Witness ==
  \E r \in FinishedUpdates :
    /\ MayUpdateAll(reqs[r].role, reqs[r].actor, reqs[r].pre.leads)
    /\ InvalidIds(reqs[r]) = {Stranger}
    /\ reqs[r].result = "InvalidAssignees"

\* The users a status change is announced to: assignees and leads, less the
\* actor.
StatusRecipients(q) ==
  (SeqToSet(taskAssignees) \cup SeqToSet(q.pre.leads)) \ {q.actor}

\* The request of q changed the status of the task.
ChangedStatus(q) ==
  /\ "update" \in q.did
  /\ "status" \in DOMAIN q.data
  /\ q.data.status # q.pre.task.status

\* C7: when an updateTask that returns has changed the status, the
\* status_change notifications it wrote are exactly one for each user among
\* the task's assignees (as replaced by the same request) and the project's
\* leads, less the actor; each carries the old and the new status.
C7_StatusChangeRecipients ==
  \A r \in FinishedUpdates :
    LET q == reqs[r]
    IN (ChangedStatus(q) /\ q.result = "ok") =>
         /\ \A u \in StatusRecipients(q) :
              ExactlyOne(q, u, "status_change", "status changed")
         /\ \A n \in BagToSet(Added(q)) :
              n.type = "status_change" =>
                /\ n.userId \in StatusRecipients(q)
                /\ n.text.old = q.pre.task.status
                /\ n.text.new = q.data.status

\* An actor who is an assignee changed the status while another user was
\* both assignee and lead: that user was told once, the actor not at all.
C7_Witness ==
  \E r \in FinishedUpdates :
    LET q == reqs[r]
    IN /\ ChangedStatus(q)
       /\ q.result = "ok"
       /\ q.actor \in SeqToSet(taskAssignees)
       /\ \E u \in StatusRecipients(q) :
            u \in SeqToSet(taskAssignees) /\ u \in SeqToSet(q.pre.leads)

\* The request of q replaced the assignee rows and both assignment loops
\* ran to their end.
ReplacedAssignees(q) == "replace" \in q.did /\ q.failedFor = {}

\* C8: when updateTask replaces the assignee set old by new, each user of
\* new \ old gets exactly one 'assigned' notification and each user of
\* old \ new exactly one 'unassigned' notification, of type assignment, and
\* nobody else gets an assignment notification.
C8_AssignmentDiff ==
  \A r \in FinishedUpdates :
    LET q == reqs[r]
        old == SeqToSet(q.pre.assignees)
        new == SeqToSet(q.data.assigneesIds)
    IN ReplacedAssignees(q) =>
         /\ \A u \in new \ old : ExactlyOne(q, u, "assignment", "assigned")
         /\ \A u \in old \ new : ExactlyOne(q, u, "assignment", "unassigned")
         /\ \A n \in BagToSet(Added(q)) :
              n.type = "assignment" =>
                \/ n.text.what = "assigned" /\ n.userId \in new \ old
                \/ n.text.what = "unassigned" /\ n.userId \in old \ new

\* Assignees {A, B} were replaced by {B, C}: C was told 'assigned', A
\* 'unassigned', B nothing.
C8_Witness ==
  \E r \in FinishedUpdates :
    LET q == reqs[r]
    IN /\ ReplacedAssignees(q)
       /\ q.pre.assignees = <<"A", "B">>
       /\ q.data.assigneesIds = <<"B", "C">>
       /\ AddedFor(q, "C", "assignment", "assigned") # {}
       /\ AddedFor(q, "A", "assignment", "unassigned") # {}

\* C9: the assignee rows a reader finds while an updateTask with a
\* replacement set is in flight or finished are the complete old set or the
\* complete new set, and they are the old set whenever the transaction did
\* not commit.
C9_ReplacementAtomic ==
  \A r \in Slots :
    LET q == reqs[r]
    IN (q.kind = "update" /\ "assigneesIds" \in DOMAIN q.data) =>
         IF "replace" \in q.did
         THEN taskAssignees = q.data.assigneesIds
         ELSE taskAssignees = q.pre.assignees

\* The insert of a replacement failed and the old rows, not none, are there.
C9_Witness ==
  \E r \in FinishedUpdates :
    /\ reqs[r].result = "StoreError"
    /\ "assigneesIds" \in DOMAIN reqs[r].data
    /\ reqs[r].did = {}
    /\ reqs[r].pre.assignees = <<"A", "B">>
    /\ taskAssignees = <<"A", "B">>

\* The users a fan-out of that type is meant to reach.
Intended(q, type) ==
  CASE type = "assignment" ->
         LET old == SeqToSet(q.pre.assignees)
             new == SeqToSet(q.data.assigneesIds)
         IN (new \ old) \cup (old \ new)
    [] type = "status_change" -> StatusRecipients(q)
    [] OTHER ->
         (SeqToSet(q.pre.assignees) \cup SeqToSet(q.pre.leads)) \ {q.actor}

\* C10: when persistence or delivery fails for one recipient of a fan-out,
\* every other recipient of that fan-out still has the notification.
C10_FanOutIndependent ==
  \A r \in Finished :
    LET q == reqs[r]
    IN \A f \in q.failedFor :
         \A u \in Intended(q, f.type) \ {f.userId} :
           \E n \in BagToSet(Added(q)) : n.userId = u /\ n.type = f.type

\* C11: when the real-time push of a notification fails, the notification
\* row that was written stays in the store, the parent updateTask or
\* addCommentToTask still returns success, and what the parent wrote stays
\* committed.
C11_PushFailureSwallowed ==
  \A r \in Finished :
    LET q == reqs[r]
    IN q.failure = "push" =>
         /\ \A n \in q.failedFor : n \in BagToSet(Added(q))
         /\ q.did # {}
         /\ q.result = "ok"

\* The fan-outs the request of q ran to their end.
FanOuts(q) ==
  {ty \in {"assignment", "status_change", "comment"} :
     /\ q.result = "ok"
     /\ CASE ty = "assignment" -> "replace" \in q.did
          [] ty = "status_change" -> ChangedStatus(q)
          [] OTHER -> "comment" \in q.did}

\* C12: with no Socket.IO server attached, createAndSendNotification still
\* writes the notification row, unread, for every recipient of a fan-out and
\* returns, and no event is pushed.
C12_DetachedStillPersists ==
  ~ io =>
    /\ emitted = EmptyBag
    /\ \A n \in BagToSet(notifications) : n.read = FALSE
    /\ \A r \in Finished :
         LET q == reqs[r]
         IN /\ q.failure # "push"
            /\ \A ty \in FanOuts(q) :
                 \A u \in Intended(q, ty) :
                   \E n \in BagToSet(Added(q)) :
                     n.userId = u /\ n.type = ty /\ n.read = FALSE

\* Without a Socket.IO server a status change was announced to two users:
\* both rows are in the store and nothing was pushed.
C12_Witness ==
  /\ ~ io
  /\ emitted = EmptyBag
  /\ \E r \in Finished :
       /\ "status_change" \in FanOuts(reqs[r])
       /\ Cardinality(Intended(reqs[r], "status_change")) = 2
       /\ BagCardinality(Added(reqs[r])) >= 2

\* The request of q names a project outside the organization it names, or a
\* task outside the project it names.
Misaddressed(q) ==
  \/ ~ ( /\ q.projectId \in DOMAIN ProjectOrganization
         /\ ProjectOrganization[q.projectId] = q.organizationId )
  \/ ~ ( /\ q.taskId \in DOMAIN q.pre.rows
         /\ q.pre.rows[q.taskId].projectId = q.projectId )

\* C13: updateTask fails with NotFound when the project is not of the given
\* organization or the task is not of the given project, whatever the
\* actor's role, and then no task row, assignee row or notification is
\* written.
C13_NotFoundWritesNothing ==
  \A r \in FinishedUpdates :
    LET q == reqs[r]
    IN Misaddressed(q) =>
         /\ q.result = "NotFound"
         /\ tasks = q.pre.rows
         /\ NothingWritten(q)

\* An Admin named the task under the organization's other project and got
\* NotFound.
C13_Witness ==
  \E r \in FinishedUpdates :
    /\ reqs[r].result = "NotFound"
    /\ reqs[r].role = "ADMIN"
    /\ reqs[r].organizationId = Organization
    /\ reqs[r].projectId = "P2"
    /\ reqs[r].taskId = TaskId

\* The finished calls of reorderTasks.
FinishedReorders == {r \in Finished : reqs[r].kind = "reorder"}

\* The tasks of a project among the rows.
ProjectTasks(rows, projectId) ==
  {id \in DOMAIN rows : rows[id].projectId = projectId}

\* C14: after a reorderTasks that returned, the task at position i of the
\* submitted list (counted from 0) has displayOrder i, and when the list
\* covers all N tasks of the project their displayOrder values are exactly
\* 0..N-1.
C14_ReorderNumbersFromZero ==
  \A r \in FinishedReorders :
    LET q == reqs[r]
        l == q.data.taskIdsInOrder
        all == ProjectTasks(tasks, q.projectId)
    IN q.result = "ok" =>
         /\ \A i \in DOMAIN l : tasks[l[i]].displayOrder = i - 1
         /\ SeqToSet(l) = all =>
              {tasks[id].displayOrder : id \in all} = 0..(Cardinality(all) - 1)

\* Tasks T1, T2, T3 were reordered as T3, T1, T2: T3 is 0, T1 is 1, T2 is 2.
C14_Witness ==
  \E r \in FinishedReorders :
    /\ reqs[r].result = "ok"
    /\ reqs[r].data.taskIdsInOrder = <<"T3", "T1", "T2">>
    /\ tasks["T3"].displayOrder = 0
    /\ tasks["T1"].displayOrder = 1
    /\ tasks["T2"].displayOrder = 2

\* The list of q names an id that was no task of the project when q entered.
NamesForeignTask(q) ==
  \E i \in DOMAIN q.data.taskIdsInOrder :
    q.data.taskIdsInOrder[i] \notin ProjectTasks(q.pre.rows, q.projectId)

\* C15: a reorderTasks whose list names an id that is no task of the project
\* (an id of no task, or a task of another project) fails with the validation
\* error and has written nothing: every row of every project is as before.
C15_ForeignIdWritesNothing ==
  \A r \in FinishedReorders :
    LET q == reqs[r]
    IN NamesForeignTask(q) =>
         /\ q.result = "ValidationError"
         /\ q.did = {}
         /\ tasks = q.pre.rows

\* A list naming a task of the other project was rejected, that task still
\* at its place.
C15_Witness ==
  \E r \in FinishedReorders :
    /\ reqs[r].data.taskIdsInOrder = <<"T3", "T1", "T4">>
    /\ reqs[r].result = "ValidationError"
    /\ tasks["T4"].displayOrder = 0
    /\ tasks["T3"].displayOrder = reqs[r].pre.rows["T3"].displayOrder

\* The row with its displayOrder left out of the comparison.
OtherFields(row) == [row EXCEPT !.displayOrder = 0]

\* C18: reorderTasks changes only the displayOrder of the tasks in its list:
\* the omitted tasks of the project and the tasks of other projects keep
\* their rows, the listed tasks keep every other column, and the assignee
\* rows, comments and notifications are as before.
C18_ReorderFrame ==
  \A r \in FinishedReorders :
    LET q == reqs[r]
        l == q.data.taskIdsInOrder
    IN /\ DOMAIN tasks = DOMAIN q.pre.rows
       /\ \A id \in DOMAIN tasks :
            IF id \in SeqToSet(l)
            THEN OtherFields(tasks[id]) = OtherFields(q.pre.rows[id])
            ELSE tasks[id] = q.pre.rows[id]
       /\ taskAssignees = q.pre.assignees
       /\ comments = q.pre.comments
       /\ notifications = q.pre.notifications

\* T2, T1 were reordered with T3 omitted: T3 kept displayOrder 2 and the
\* task of the other project its 0.
C18_Witness ==
  \E r \in FinishedReorders :
    /\ reqs[r].result = "ok"
    /\ reqs[r].data.taskIdsInOrder = <<"T2", "T1">>
    /\ tasks["T2"].displayOrder = 0
    /\ tasks["T1"].displayOrder = 1
    /\ tasks["T3"].displayOrder = 2
    /\ tasks["T4"].displayOrder = 0

\* This step ends the transaction of the reorderTasks in slot r.
Commits(r) ==
  /\ reqs[r].kind = "reorder"
  /\ reqs[r].pc = "transaction"
  /\ reqs'[r].pc = "done"

\* C16: reorderTasks is all-or-nothing.  The step that ends its transaction
\* either leaves every row as it was (one update was rejected, for example
\* because a listed task was deleted after the validation) or has renumbered
\* every listed task; no other step of a reorderTasks changes a row, so no
\* reader finds some listed tasks renumbered and others not.
C16_ReorderAllOrNothing ==
  [][ /\ \A r \in Slots :
           Commits(r) =>
             IF reqs'[r].result = "ok"
             THEN \A i \in DOMAIN reqs[r].data.taskIdsInOrder :
                    tasks'[reqs[r].data.taskIdsInOrder[i]].displayOrder = i - 1
             ELSE tasks' = tasks
      /\ (\A r \in Slots : ~ Commits(r)) =>
           \A id \in (DOMAIN tasks) \cap (DOMAIN tasks') :
             tasks'[id] = tasks[id] ]_vars

\* A listed task was deleted after the validation: the transaction failed
\* and the other listed tasks are where they were when the request entered.
C16_Witness ==
  \E r \in FinishedReorders :
    LET q == reqs[r]
        l == q.data.taskIdsInOrder
    IN /\ q.result = "StoreError"
       /\ faults = 0
       /\ \E i \in DOMAIN l : l[i] \notin DOMAIN tasks
       /\ \A i \in DOMAIN l :
            l[i] \in DOMAIN tasks =>
              tasks[l[i]].displayOrder = q.pre.rows[l[i]].displayOrder

\* The rows carry the order of the list.
InOrderOf(l) == \A i \in DOMAIN l : tasks[l[i]].displayOrder = i - 1

\* Both slots hold a reorderTasks of the same project that returned, each
\* listing all tasks of the project.
BothReordered ==
  \A r \in Slots :
    /\ r \in FinishedReorders
    /\ reqs[r].result = "ok"
    /\ reqs[r].projectId = TaskProject
    /\ SeqToSet(reqs[r].data.taskIdsInOrder) = ProjectTasks(tasks, TaskProject)

\* C17: when two reorderTasks of the same project, each listing all its
\* tasks, have run together, the displayOrder values are the complete order
\* of one of the two lists, not a mixture.
C17_ConcurrentReorderOneWins ==
  BothReordered =>
    \E r \in Slots : InOrderOf(reqs[r].data.taskIdsInOrder)

\* Two reorders with different lists entered before either had written, and
\* both returned.
C17_Witness ==
  /\ BothReordered
  /\ reqs[1].data.taskIdsInOrder # reqs[2].data.taskIdsInOrder
  /\ \A r \in Slots : reqs[r].pre.rows = InitialTasks
  /\ InOrderOf(reqs[1].data.taskIdsInOrder)

\* C19: for every non-empty list of task statuses with at least one Stuck,
\* calculateProjectStatus returns AtRisk, whatever the completion
\* percentage, also when every other task is Completed.
C19_StuckMeansAtRisk ==
  ( /\ calc.called
    /\ calc.tasks # << >>
    /\ "Stuck" \in SeqToSet(calc.tasks) ) => calc.status = "AtRisk"

\* All tasks but one are Completed and one is Stuck; the percentage rounds
\* to 100 and the status is AtRisk.
C19_Witness ==
  /\ calc.called
  /\ CountOf(calc.tasks, "Stuck") = 1
  /\ CountOf(calc.tasks, "Completed") = Len(calc.tasks) - 1
  /\ calc.completionPercentage = 100
  /\ calc.status = "AtRisk"

\* C20: for every list of task statuses without Stuck, calculateProjectStatus
\* returns Planned (and 0) for the empty list, Completed when the completion
\* percentage is 100, Planned when it is 0 and every task is Planned, and
\* InProgress in every other case.
C20_StatusWithoutStuck ==
  ( calc.called /\ "Stuck" \notin SeqToSet(calc.tasks) ) =>
    IF calc.tasks = << >>
    THEN calc.status = "Planned" /\ calc.completionPercentage = 0
    ELSE IF calc.completionPercentage = 100 THEN calc.status = "Completed"
    ELSE IF /\ calc.completionPercentage = 0
            /\ \A i \in DOMAIN calc.tasks : calc.tasks[i] = "Planned"
         THEN calc.status = "Planned"
    ELSE calc.status = "InProgress"

\* No task is Completed or Stuck and one is in progress: the percentage is 0
\* and the status is InProgress.
C20_Witness ==
  /\ calc.called
  /\ calc.tasks = <<"Planned", "InProgress">>
  /\ calc.completionPercentage = 0
  /\ calc.status = "InProgress"

\* The percentage of completedTasks of totalTasks rounded to the nearest
\* integer, a half going up, in exact arithmetic.
HalfUp(completedTasks, totalTasks) ==
  (200 * completedTasks + totalTasks) \div (2 * totalTasks)

\* C21: for every non-empty list, calculateProjectStatus returns as
\* completionPercentage 100 * Completed / total rounded to the nearest
\* integer, halves rounded up; for the empty list it returns 0; the result
\* is an integer in 0..100.
C21_PercentageRoundsHalfUp ==
  calc.called =>
    /\ calc.completionPercentage \in 0..100
    /\ calc.completionPercentage =
         IF calc.tasks = << >> THEN 0
         ELSE HalfUp(CountOf(calc.tasks, "Completed"), Len(calc.tasks))

\* C30: calculateProjectStatus returns Completed only when every task of
\* the list is Completed, whatever the length of the list.
C30_CompletedOnlyWhenAllCompleted ==
  ( calc.called /\ calc.status = "Completed" ) =>
    \A i \in DOMAIN calc.tasks : calc.tasks[i] = "Completed"

\* C23: when addCommentToTask succeeds, every user who is an assignee of the
\* task or a lead of the project, the author excepted, has exactly one
\* comment notification from it, and nobody else (the author included) has
\* one.
C23_CommentRecipients ==
  \A r \in Finished :
    LET q == reqs[r]
        recipients ==
          (SeqToSet(q.pre.assignees) \cup SeqToSet(q.pre.leads)) \ {q.actor}
    IN (q.kind = "comment" /\ q.result = "ok") =>
         /\ \A u \in recipients : ExactlyOne(q, u, "comment", "new comment")
         /\ \A n \in BagToSet(Added(q)) :
              n.type = "comment" /\ n.userId \in recipients

\* The author A is an assignee and B is both an assignee and the lead: the
\* comment succeeded and B has one notification, A none.
C23_Witness ==
  \E r \in Finished :
    LET q == reqs[r]
    IN /\ q.kind = "comment"
       /\ q.result = "ok"
       /\ q.actor = "A"
       /\ q.pre.assignees = <<"A", "B">>
       /\ q.pre.leads = <<"B">>
       /\ ExactlyOne(q, "B", "comment", "new comment")
       /\ BagCardinality(Added(q)) = 1

\* The finished createTask requests.
FinishedCreates == {r \in Finished : reqs[r].kind = "create"}

\* The highest displayOrder among the tasks of a project, or -1 when the
\* project has no task.
HighestOrder(rows, projectId) ==
  LET orders == {rows[t].displayOrder :
                   t \in {id \in DOMAIN rows : rows[id].projectId = projectId}}
  IN IF orders = {} THEN -1
     ELSE CHOOSE m \in orders : \A n \in orders : n <= m

\* No task row has been added or changed since q entered.
NothingCreated(q) ==
  \A id \in DOMAIN tasks : id \in DOMAIN q.pre.rows /\ tasks[id] = q.pre.rows[id]

\* C24: a createTask that succeeds leaves a new task with status Planned and
\* displayOrder one above the highest displayOrder of its project, 0 when the
\* project had no task; a createTask whose startDate or endDate is missing,
\* or one of whose assignee ids is no member of the organization, fails and
\* creates nothing.
C24_CreateTask ==
  \A r \in FinishedCreates :
    LET q == reqs[r]
        assigneesIds == AssigneesIdsOf(q.data)
        missingDate ==
          "startDate" \notin DOMAIN q.data \/ "endDate" \notin DOMAIN q.data
        notMember ==
          \E i \in DOMAIN assigneesIds : assigneesIds[i] \notin q.pre.members
    IN /\ (missingDate \/ notMember) => q.result # "ok" /\ NothingCreated(q)
       /\ q.result = "ok" =>
            /\ q.taskId \in (DOMAIN tasks) \ (DOMAIN q.pre.rows)
            /\ tasks[q.taskId].projectId = q.projectId
            /\ tasks[q.taskId].status = "Planned"
            /\ tasks[q.taskId].displayOrder =
                 HighestOrder(q.pre.rows, q.projectId) + 1

\* A task was created in the project after its second task had been
\* deleted: the tasks left have the orders 0 and 2 and the new one has 3.
C24_Witness ==
  \E r \in FinishedCreates :
    LET q == reqs[r]
    IN /\ q.result = "ok"
       /\ q.projectId = TaskProject
       /\ "T2" \notin DOMAIN q.pre.rows
       /\ tasks[q.taskId].status = "Planned"
       /\ tasks[q.taskId].displayOrder = 3

\* The finished project listings.
FinishedListings == {r \in Finished : reqs[r].kind = "list"}

\* The listing reports what calculateProjectStatus gives for the tasks the
\* project had when the listing read it.
ListingIsDerived ==
  \A r \in FinishedListings :
    LET q == reqs[r]
        derived == calculateProjectStatus(StatusesOf(q.pre.rows, q.projectId))
    IN /\ calc.called
       /\ calc.status = derived.status
       /\ calc.completionPercentage = derived.completionPercentage

\* A step that changes the stored status of a project is a project update
\* writing the status of its payload; it is no task change and no listing.
StatusWrittenFromPayload ==
  \A p \in DOMAIN projects :
    projects'[p].status # projects[p].status =>
      /\ tasks' = tasks
      /\ calc' = calc
      /\ \E body \in ProjectPayloads :
           "status" \in DOMAIN body /\ projects'[p].status = body.status

\* C22: after any sequence of task creations, status updates, deletions and
\* project updates (also ones whose payload carries a status), the status
\* and completionPercentage the project listing reports are
\* calculateProjectStatus of the project's task statuses at the time of the
\* read; the derived status is never written to the store.
C22_ListingDerivesStatus ==
  [] ListingIsDerived /\ [][StatusWrittenFromPayload]_vars

\* A project update stored the status Completed, the task was then set to
\* Stuck, and the listing reports AtRisk.
C22_Witness ==
  \E r \in FinishedListings :
    /\ reqs[r].projectId = TaskProject
    /\ projects[TaskProject].status = "Completed"
    /\ reqs[r].pre.rows[TaskId].status = "Stuck"
    /\ calc.status = "AtRisk"

\* C25: a request that fans out status_change notifications carries a status
\* in its payload and its own update changed the stored status, also when
\* two updateTask requests on the task are interleaved; so a request without
\* a status in its payload writes none, and one change of the status is
\* announced by one request.
C25_StatusChangeFromOwnUpdate ==
  \A r \in Slots :
    "statusNotified" \in reqs[r].did =>
      /\ "status" \in DOMAIN reqs[r].data
      /\ "statusChanged" \in reqs[r].did

\* C26: under any interleaving of updateTask requests that replace the
\* assignees, a request's 'assigned' notifications go only to users who were
\* no assignees immediately before its replacement committed, and its
\* 'unassigned' notifications only to users who were.
C26_AssignmentReflectsChange ==
  \A r \in Slots :
    LET q == reqs[r]
    IN (q.kind = "update" /\ q.pc = "notifyAssign") =>
         \A i \in DOMAIN q.queue :
           /\ q.queue[i].text.what = "assigned" =>
                q.queue[i].userId \notin SeqToSet(q.replaced)
           /\ q.queue[i].text.what = "unassigned" =>
                q.queue[i].userId \in SeqToSet(q.replaced)

\* The organization that owns the project of the task the request of q names.
OwnerOf(q) == ProjectOrganization[q.pre.rows[q.taskId].projectId]

\* C27: updateTask grants rights only within the actor's tenant: a request
\* that updated a task of an organization was made by a member of that
\* organization, and one that passed as Admin or SuperAdmin by a user whose
\* role in that organization is Admin or SuperAdmin.
C27_RightsWithinTenant ==
  \A r \in FinishedUpdates :
    LET q == reqs[r]
    IN "update" \in q.did =>
         /\ MembershipIn(q.actor, OwnerOf(q)) # NoRole
         /\ q.role \in {"ADMIN", "SUPER_ADMIN"} =>
              MembershipIn(q.actor, OwnerOf(q)) \in {"ADMIN", "SUPER_ADMIN"}

\* C28: in every state every assignee of a task holds a membership of the
\* organization that owns the task's project, under any interleaving of
\* createTask, updateTask and removeUserFromOrg: a removed user is neither
\* left nor inserted again as an assignee.
C28_AssigneesAreMembers ==
  \A t \in DOMAIN tasks :
    \A u \in SeqToSet(AssigneesOf(t)) :
      MembershipIn(u, ProjectOrganization[tasks[t].projectId]) # NoRole

\* C29: after any interleaving of createTask requests on the project no two
\* of its tasks have the same displayOrder.
C29_DisplayOrdersDistinct ==
  \A t1, t2 \in DOMAIN tasks :
    ( /\ t1 # t2
      /\ tasks[t1].projectId = TaskProject
      /\ tasks[t2].projectId = TaskProject )
      => tasks[t1].displayOrder # tasks[t2].displayOrder

====
